---- MODULE Spec2Model ----
(***************************************************************************)
(* A model of the IoTDB restore tool: the restore pipeline                 *)
(* (IoTDBRestorer.Restore), the two batch import engines (Importer.Import  *)
(* and Batcher.ProcessBatches), the retrying downloader                    *)
(* (OSSDownloader.DownloadWithProgress), the existence probe and the       *)
(* timestamp detector (OSSDownloader.Exists, Detector.DetectTimestamp),    *)
(* and the pod executor (Executor.Exec and its container cache).           *)
(*                                                                         *)
(* The specifications share the variables:                                 *)
(*   Spec          Restore, from the call to its return, Import included   *)
(*   SpecImport    one call of Import or of ProcessBatches on a manifest   *)
(*   SpecDownload  a sequence of Download calls to one destination path    *)
(*   SpecDetect    one call of DetectTimestamp                             *)
(*   SpecScenario  SpecImport on a fixed manifest, configuration and pod   *)
(*   SpecExec      a sequence of Exec calls on one Executor                *)
(*   SpecLoad      the load of one file and the count of its outcome       *)
(*   SpecOutcomes  SpecImport on a pod with a given outcome for each file  *)
(*   SpecDetectCustom  one call of DetectTimestampCustom                   *)
(*   SpecImportFair    an engine with a limit of at least one slot and an  *)
(*                     uncancelled context, under fair scheduling          *)
(*   SpecProgress  io.Copy of one response body through a progressWriter   *)
(***************************************************************************)
EXTENDS Integers, Sequences, FiniteSets, TLC

(***************************************************************************)
(* Bounds of the model.                                                    *)
(***************************************************************************)
\* the longest manifest handed to Import / ProcessBatches in SpecImport
MaxFiles == 5
\* the largest configured batch size
MaxBatch == 3
\* the largest configured concurrency limit
MaxConc == 3
\* the most file paths in a listing that Restore's discovery returns
MaxListed == 2
\* the number of Download calls made in SpecDownload
MaxCalls == 2
\* the number of Exec calls made on one Executor in SpecExec
MaxExecs == 3
\* the longest manifest handed to the engines in SpecImportFair
MaxQueued == 3
\* the longest manifest handed to the engines in SpecOutcomes
MaxScripted == 4
\* the longest response body, and the largest Content-Length, in SpecProgress
MaxBody == 12
\* the most bytes io.Copy hands to one Write in SpecProgress
MaxChunk == 3

(***************************************************************************)
(* Program constants.                                                      *)
(***************************************************************************)
\* OSSDownloader.maxRetries as NewOSSDownloader sets it
maxRetries == 3

\* Import.RetryCount as SetDefaults sets it, and the values it is configured
\* with in SpecImport
defaultRetryCount == 3
RetryCounts == {1, defaultRetryCount}

\* the databases deleteDatabases drops, in order
databases == <<"root.emsplus", "root.energy">>

VARIABLES
    \* ---- the import engines ------------------------------------------
    engine,        \* "Import" (Importer.Import) or "Batcher" (ProcessBatches)
    files,         \* the manifest: a sequence of file paths
    cfg,           \* config.Import: Concurrency, BatchSize, BatchPause, RetryCount
    ipc,           \* position of the engine's own goroutine
    i,             \* the batch loop's index into files
    end,           \* end of the batch being processed
    next,          \* position of the next file the spawn loop starts a task for
    task,          \* position in files -> state of that file's goroutine
    sem,           \* number of elements in the semaphore channel
    wg,            \* the WaitGroup counter
    successCount,  \* atomic counter
    failedCount,   \* atomic counter
    batchLog,      \* Import: the batches it has cut and logged, in order
    batches,       \* ProcessBatches: the []*Batch it builds
    pauses,        \* number of inter-batch sleeps taken
    importResult,  \* the value the engine returned ("none" before it returns)
    engineErr,     \* the error the engine returned ("none" before it returns)
    loadIssued,    \* position in files -> load commands handed to the executor
    container,     \* Executor.container: the cached container name, "" if none
    ctx,           \* the context of the call: done once cancelled, with the
                   \* numbers of loads that had succeeded and that were in
                   \* flight when it was cancelled
    loads,         \* the loads that have returned, by outcome
    script,        \* position in files -> the outcome the pod is set up to
                   \* give that file's load: "ok", "fail" or "any"
    \* ---- the executor's command stream --------------------------------
    cmds,          \* the commands the sequential flow has issued, in order
    \* ---- the restore pipeline -----------------------------------------
    opts,          \* RestoreOptions: DryRun, SkipDelete
    staged,        \* the archive /tmp/<backupFile> in the pod: "absent" or "present"
    rpc,           \* position of Restore
    dbi,           \* deleteDatabases' loop index into databases
    lastErr,       \* whether the last command Restore issued returned an error
    result,        \* r.result
    retErr,        \* the error Restore returned ("none" before it returns)
    \* ---- the downloader ------------------------------------------------
    dpc,           \* position of DownloadWithProgress
    destFile,      \* what is at destPath: "absent", "old", "partial", "new"
    startFile,     \* what was at destPath when the current call began
    attempt,       \* the retry loop's counter
    lastCause,     \* lastErr of DownloadWithProgress: the last attempt's cause
    gets,          \* GET requests sent during the current call
    attemptLog,    \* how each attempt of the current call ended, in order
    sleeps,        \* retry delays taken during the current call
    dret,          \* what the current call returned ("none" before it returns)
    calls,         \* Download calls completed
    okCalls,       \* Download calls that returned nil
    \* ---- the timestamp detector ----------------------------------------
    dtpc,          \* position of DetectTimestamp
    hour,          \* time.Now() formatted as YYYYMMDDHH
    pattern,       \* the pattern handed to DetectTimestampCustom
    second,        \* the loop variable of the candidate loop
    probeLog,      \* the probes sent, in order, and what each reported
    lastResp,      \* the server's answer to the latest probe
    exRet,         \* what Exists returned for the latest probe
    dtRet,         \* what DetectTimestamp returned (kind "none" before)
    \* ---- a caller of Executor.Exec ------------------------------------
    xpc,           \* position of Exec
    xcalls,        \* Exec calls begun
    lookups,       \* pod lookups getContainerName has made
    xlog,          \* how each Exec call ended, in order
    xapi,          \* the method of the Executor through which Exec was entered
    \* ---- one load on its own ------------------------------------------
    ldpc,          \* position of the task body around importSingleFile
    execOut,       \* what Exec returned for the load command
    loadErr,       \* the error importSingleFile returned ("none" before)
    \* ---- one io.Copy through a progressWriter -------------------------
    pwpc,          \* position of io.Copy: "copy", "done", "failed", "panic"
    total,         \* pw.total: resp.ContentLength, -1 if unknown
    written,       \* pw.written
    lastLog        \* pw.lastLog: "zero" (the zero time.Time) or "set"

engineVars == <<engine, files, cfg, ipc, i, end, next, task, sem, wg,
                successCount, failedCount, batchLog, batches, pauses,
                importResult, engineErr, loadIssued, ctx, loads, script>>
importVars == <<engineVars, container>>
restoreVars == <<opts, staged, rpc, dbi, lastErr, result, retErr>>
dlVars == <<dpc, destFile, startFile, attempt, lastCause, gets, attemptLog,
            sleeps, dret, calls, okCalls>>
detVars == <<dtpc, hour, pattern, second, probeLog, lastResp, exRet, dtRet>>
\* the variables of the specifications that model one component on its own
execVars == <<xpc, xcalls, lookups, xlog, xapi>>
loadVars == <<ldpc, execOut, loadErr>>
pwVars == <<pwpc, total, written, lastLog>>
auxVars == <<detVars, execVars, loadVars, pwVars>>
vars == <<importVars, cmds, restoreVars, dlVars, auxVars>>

(***************************************************************************)
(* Remote commands.  A command is recorded by its kind and argument.       *)
(***************************************************************************)
Cmd(kind, arg) == [kind |-> kind, arg |-> arg]

(***************************************************************************)
(* The batch import engines.                                               *)
(***************************************************************************)

\* end := i + batchSize; if end > totalFiles { end = totalFiles }
BatchEnd(idx, batchSize, totalFiles) ==
    IF idx + batchSize > totalFiles THEN totalFiles ELSE idx + batchSize

\* batchNum := i/batchSize + 1
BatchNum(idx, batchSize) == idx \div batchSize + 1

\* totalBatches := (totalFiles + batchSize - 1) / batchSize
TotalBatches(totalFiles, batchSize) == (totalFiles + batchSize - 1) \div batchSize

\* files[i:end]
Slice(s, from, to) == SubSeq(s, from + 1, to)

\* the loop condition of the batch loop: i < totalFiles
MoreBatchesOffByOne(idx, totalFiles) == idx + 1 < totalFiles
MoreBatches(idx, totalFiles) == idx < totalFiles

\* the pause condition: i+batchSize < totalFiles && BatchPause
ShouldPauseAfterLast(idx, batchSize, totalFiles, batchPause) == batchPause
ShouldPause(idx, batchSize, totalFiles, batchPause) ==
    idx + batchSize < totalFiles /\ batchPause

\* importSingleFile / importFile: nil iff Exec returned no error and stdout or
\* stderr holds a success marker
importIgnoresErr(err, marker) == marker
importSingleFile(err, marker) == ~err /\ marker

\* sem <- struct{}{} can proceed iff the channel holds fewer than cap elements
SemUnbounded(held, capacity) == TRUE
SemDefaulted(held, capacity) == held < (IF capacity <= 0 THEN 1 ELSE capacity)
SemHasRoom(held, capacity) == held < capacity

\* wg.Wait() returns iff the counter is zero
WaitNoBarrier(counter) == TRUE
WaitReturns(counter) == counter = 0

\* getContainerName: the cached name if there is one; else the pod is looked
\* up, and the name of its first container is cached if the lookup finds one
CachedNever(name) == FALSE
Cached(name) == name # ""
Resolve(cached, found) ==
    IF Cached(cached) THEN cached ELSE IF found THEN "iotdb" ELSE ""

\* Exec returns an error when the stream fails, which it does once the
\* context that bounds it is done
ExecIgnoresContext(done, streamFailed) == streamFailed
ExecFails(done, streamFailed) == done \/ streamFailed

\* the outcomes the pod's set-up allows a load
Allowed(scripted, ok) ==
    CASE scripted = "ok" -> ok
      [] scripted = "fail" -> ~ok
      [] OTHER -> TRUE

\* the error processBatch returns: always nil
processBatchErrOnFailure(failed) == IF failed > 0 THEN "batch failed" ELSE "nil"
processBatchErr(failed) == "nil"


\* Importer.Import is called: lines 41-57
ImportCall ==
    /\ ipc = "call" /\ engine = "Import"
    /\ sem' = 0 /\ wg' = 0 /\ successCount' = 0 /\ failedCount' = 0
    /\ i' = 0
    /\ ipc' = "loop"
    /\ UNCHANGED <<engine, files, cfg, end, next, task, batchLog, batches,
                   pauses, importResult, engineErr, loadIssued>>
    /\ UNCHANGED <<container, ctx, loads, script>>
    /\ UNCHANGED <<cmds, restoreVars, dlVars, auxVars>>

\* Import's loop head for one more batch: the slice is cut and logMemoryUsage
\* issues its command through Exec (its outcome is only logged)
ImportBatchBegin ==
    /\ ipc = "loop" /\ engine = "Import"
    /\ MoreBatches(i, Len(files))
    /\ end' = BatchEnd(i, cfg.BatchSize, Len(files))
    /\ batchLog' = Append(batchLog,
                          [Number |-> BatchNum(i, cfg.BatchSize),
                           Total |-> TotalBatches(Len(files), cfg.BatchSize),
                           Files |-> Slice(files, i, end')])
    /\ cmds' = Append(cmds, Cmd("logmem", ""))
    /\ \E found \in BOOLEAN : container' = Resolve(container, found /\ ~ctx.done)
    /\ next' = i + 1
    /\ ipc' = "spawn"
    /\ UNCHANGED <<ctx, loads, script>>
    /\ UNCHANGED <<engine, files, cfg, i, task, sem, wg, successCount,
                   failedCount, batches, pauses, importResult, engineErr,
                   loadIssued>>
    /\ UNCHANGED <<restoreVars, dlVars, auxVars>>

\* for _, file := range batch { wg.Add(1); go func(f) {...}(file) }
SpawnTask ==
    /\ ipc = "spawn"
    /\ next <= end
    /\ wg' = wg + 1
    /\ task' = [task EXCEPT ![next] = "spawned"]
    /\ next' = next + 1
    /\ UNCHANGED <<engine, files, cfg, ipc, i, end, sem, successCount,
                   failedCount, batchLog, batches, pauses, importResult,
                   engineErr, loadIssued>>
    /\ UNCHANGED <<container, ctx, loads, script>>
    /\ UNCHANGED <<cmds, restoreVars, dlVars, auxVars>>

\* a task takes a semaphore slot and calls Exec for its load command;
\* getContainerName returns the cached name, or finds none and looks the pod up
TaskAcquire(t) ==
    /\ task[t] = "spawned"
    /\ SemHasRoom(sem, cfg.Concurrency)
    /\ sem' = sem + 1
    /\ task' = [task EXCEPT ![t] = IF Cached(container) THEN "running" ELSE "resolving"]
    /\ loadIssued' = [loadIssued EXCEPT ![t] = @ + 1]
    /\ UNCHANGED <<engine, files, cfg, ipc, i, end, next, wg, successCount,
                   failedCount, batchLog, batches, pauses, importResult,
                   engineErr>>
    /\ UNCHANGED <<container, ctx, loads, script>>
    /\ UNCHANGED <<cmds, restoreVars, dlVars, auxVars>>

\* the pod lookup of a task's Exec returns: the name is stored in the cache and
\* the command goes out, or Exec returns the error and the file is counted
\* failed
TaskResolve(t) ==
    /\ task[t] = "resolving"
    /\ \E found \in BOOLEAN :
          /\ ctx.done => ~found
          /\ Allowed(script[t], found)
          /\ IF found
             THEN /\ container' = "iotdb"
                  /\ task' = [task EXCEPT ![t] = "running"]
                  /\ UNCHANGED <<failedCount, loads>>
             ELSE /\ failedCount' = failedCount + 1
                  /\ loads' = [loads EXCEPT !.fail = @ + 1]
                  /\ task' = [task EXCEPT ![t] = "counted"]
                  /\ UNCHANGED container
    /\ UNCHANGED <<engine, files, cfg, ipc, i, end, next, sem, wg, successCount,
                   batchLog, batches, pauses, importResult, engineErr,
                   loadIssued, ctx, script>>
    /\ UNCHANGED <<cmds, restoreVars, dlVars, auxVars>>

\* the load command returns (with an error once the context is done) and the
\* task adds one to a counter
TaskFinishDropsFailure(t) ==
    /\ task[t] = "running"
    /\ \E streamFailed \in BOOLEAN, marker \in BOOLEAN :
          LET err == ExecFails(ctx.done, streamFailed)
          IN
          /\ Allowed(script[t], importSingleFile(err, marker))
          /\ IF importSingleFile(err, marker)
             THEN /\ successCount' = successCount + 1 /\ UNCHANGED failedCount
                  /\ loads' = [loads EXCEPT !.ok = @ + 1]
             ELSE /\ UNCHANGED <<successCount, failedCount>>
                  /\ loads' = [loads EXCEPT !.fail = @ + 1]
    /\ task' = [task EXCEPT ![t] = "counted"]
    /\ UNCHANGED <<container, ctx, script>>
    /\ UNCHANGED <<engine, files, cfg, ipc, i, end, next, sem, wg, batchLog,
                   batches, pauses, importResult, engineErr, loadIssued>>
    /\ UNCHANGED <<cmds, restoreVars, dlVars, auxVars>>
TaskFinishRetries(t) ==
    /\ task[t] = "running"
    /\ \E streamFailed \in BOOLEAN, marker \in BOOLEAN :
          LET err == ExecFails(ctx.done, streamFailed)
          IN
          /\ Allowed(script[t], importSingleFile(err, marker))
          /\ IF importSingleFile(err, marker)
             THEN /\ successCount' = successCount + 1 /\ UNCHANGED failedCount
                  /\ loads' = [loads EXCEPT !.ok = @ + 1]
                  /\ task' = [task EXCEPT ![t] = "counted"]
                  /\ UNCHANGED loadIssued
             ELSE IF loadIssued[t] < cfg.RetryCount
             THEN /\ loadIssued' = [loadIssued EXCEPT ![t] = @ + 1]
                  /\ UNCHANGED <<successCount, failedCount, loads, task>>
             ELSE /\ failedCount' = failedCount + 1 /\ UNCHANGED successCount
                  /\ loads' = [loads EXCEPT !.fail = @ + 1]
                  /\ task' = [task EXCEPT ![t] = "counted"]
                  /\ UNCHANGED loadIssued
    /\ UNCHANGED <<container, ctx, script>>
    /\ UNCHANGED <<engine, files, cfg, ipc, i, end, next, sem, wg, batchLog,
                   batches, pauses, importResult, engineErr>>
    /\ UNCHANGED <<cmds, restoreVars, dlVars, auxVars>>
TaskFinish(t) ==
    /\ task[t] = "running"
    /\ \E streamFailed \in BOOLEAN, marker \in BOOLEAN :
          LET err == ExecFails(ctx.done, streamFailed)
          IN
          /\ Allowed(script[t], importSingleFile(err, marker))
          /\ IF importSingleFile(err, marker)
             THEN /\ successCount' = successCount + 1 /\ UNCHANGED failedCount
                  /\ loads' = [loads EXCEPT !.ok = @ + 1]
             ELSE /\ failedCount' = failedCount + 1 /\ UNCHANGED successCount
                  /\ loads' = [loads EXCEPT !.fail = @ + 1]
    /\ task' = [task EXCEPT ![t] = "counted"]
    /\ UNCHANGED <<container, ctx, script>>
    /\ UNCHANGED <<engine, files, cfg, ipc, i, end, next, sem, wg, batchLog,
                   batches, pauses, importResult, engineErr, loadIssued>>
    /\ UNCHANGED <<cmds, restoreVars, dlVars, auxVars>>

\* the first deferred call to run: <-sem
TaskReleaseKeepsSlot(t) ==
    /\ task[t] = "counted"
    /\ task' = [task EXCEPT ![t] = "released"]
    /\ UNCHANGED <<engine, files, cfg, ipc, i, end, next, sem, wg, successCount,
                   failedCount, batchLog, batches, pauses, importResult,
                   engineErr, loadIssued>>
    /\ UNCHANGED <<container, ctx, loads, script>>
    /\ UNCHANGED <<cmds, restoreVars, dlVars, auxVars>>
TaskRelease(t) ==
    /\ task[t] = "counted"
    /\ sem' = sem - 1
    /\ task' = [task EXCEPT ![t] = "released"]
    /\ UNCHANGED <<engine, files, cfg, ipc, i, end, next, wg, successCount,
                   failedCount, batchLog, batches, pauses, importResult,
                   engineErr, loadIssued>>
    /\ UNCHANGED <<container, ctx, loads, script>>
    /\ UNCHANGED <<cmds, restoreVars, dlVars, auxVars>>

\* the last deferred call to run: wg.Done()
TaskDone(t) ==
    /\ task[t] = "released"
    /\ wg' = wg - 1
    /\ task' = [task EXCEPT ![t] = "done"]
    /\ UNCHANGED <<engine, files, cfg, ipc, i, end, next, sem, successCount,
                   failedCount, batchLog, batches, pauses, importResult,
                   engineErr, loadIssued>>
    /\ UNCHANGED <<container, ctx, loads, script>>
    /\ UNCHANGED <<cmds, restoreVars, dlVars, auxVars>>

\* Import: wg.Wait() returns, the pause is taken if due, and i += batchSize
ImportBatchEnd ==
    /\ ipc = "spawn" /\ engine = "Import"
    /\ next > end
    /\ WaitReturns(wg)
    /\ pauses' = IF ShouldPause(i, cfg.BatchSize, Len(files), cfg.BatchPause)
                 THEN pauses + 1 ELSE pauses
    /\ i' = i + cfg.BatchSize
    /\ ipc' = "loop"
    /\ UNCHANGED <<engine, files, cfg, end, next, task, sem, wg, successCount,
                   failedCount, batchLog, batches, importResult, engineErr,
                   loadIssued>>
    /\ UNCHANGED <<container, ctx, loads, script>>
    /\ UNCHANGED <<cmds, restoreVars, dlVars, auxVars>>

\* Import: the loop is over; the counters are read into the result: lines 119-134
ImportReturn ==
    /\ ipc = "loop" /\ engine = "Import"
    /\ ~MoreBatches(i, Len(files))
    /\ importResult' = [TotalFiles |-> Len(files),
                        SuccessCount |-> successCount,
                        FailedCount |-> failedCount]
    /\ engineErr' = "nil"
    /\ ipc' = "returned"
    /\ UNCHANGED <<engine, files, cfg, i, end, next, task, sem, wg,
                   successCount, failedCount, batchLog, batches, pauses,
                   loadIssued>>
    /\ UNCHANGED <<container, ctx, loads, script>>
    /\ UNCHANGED <<cmds, restoreVars, dlVars, auxVars>>

\* Batcher.ProcessBatches is called: lines 45-48
ProcessBatchesCall ==
    /\ ipc = "call" /\ engine = "Batcher"
    /\ batches' = <<>>
    /\ i' = 0
    /\ ipc' = "loop"
    /\ UNCHANGED <<engine, files, cfg, end, next, task, sem, wg, successCount,
                   failedCount, batchLog, pauses, importResult, engineErr,
                   loadIssued>>
    /\ UNCHANGED <<container, ctx, loads, script>>
    /\ UNCHANGED <<cmds, restoreVars, dlVars, auxVars>>

\* ProcessBatches' loop head for one more batch, and processBatch's entry: a
\* fresh WaitGroup, semaphore and pair of counters
BatcherBatchBeginKeepsCounters ==
    /\ ipc = "loop" /\ engine = "Batcher"
    /\ MoreBatches(i, Len(files))
    /\ end' = BatchEnd(i, cfg.BatchSize, Len(files))
    /\ sem' = 0 /\ wg' = 0
    /\ next' = i + 1
    /\ ipc' = "spawn"
    /\ UNCHANGED <<engine, files, cfg, i, task, batchLog, batches, pauses,
                   importResult, engineErr, loadIssued, successCount,
                   failedCount>>
    /\ UNCHANGED <<container, ctx, loads, script>>
    /\ UNCHANGED <<cmds, restoreVars, dlVars, auxVars>>
BatcherBatchBegin ==
    /\ ipc = "loop" /\ engine = "Batcher"
    /\ MoreBatches(i, Len(files))
    /\ end' = BatchEnd(i, cfg.BatchSize, Len(files))
    /\ sem' = 0 /\ wg' = 0 /\ successCount' = 0 /\ failedCount' = 0
    /\ next' = i + 1
    /\ ipc' = "spawn"
    /\ UNCHANGED <<engine, files, cfg, i, task, batchLog, batches, pauses,
                   importResult, engineErr, loadIssued>>
    /\ UNCHANGED <<container, ctx, loads, script>>
    /\ UNCHANGED <<cmds, restoreVars, dlVars, auxVars>>

\* processBatch: wg.Wait() returns and the counters are returned; ProcessBatches
\* fills in and appends the batch, takes the pause if due, and i += batchSize
BatcherBatchEnd ==
    /\ ipc = "spawn" /\ engine = "Batcher"
    /\ next > end
    /\ WaitReturns(wg)
    /\ IF processBatchErr(failedCount) # "nil"
       THEN /\ importResult' = "nil"
            /\ engineErr' = processBatchErr(failedCount)
            /\ ipc' = "returned"
            /\ UNCHANGED <<batches, pauses, i>>
       ELSE /\ batches' = Append(batches,
                            [Number |-> BatchNum(i, cfg.BatchSize),
                             Files |-> Slice(files, i, end),
                             Processed |-> Len(Slice(files, i, end)),
                             Success |-> successCount,
                             Failed |-> failedCount])
            /\ pauses' = IF ShouldPause(i, cfg.BatchSize, Len(files), cfg.BatchPause)
                         THEN pauses + 1 ELSE pauses
            /\ i' = i + cfg.BatchSize
            /\ ipc' = "loop"
            /\ UNCHANGED <<importResult, engineErr>>
    /\ UNCHANGED <<engine, files, cfg, end, next, task, sem, wg, successCount,
                   failedCount, batchLog, loadIssued>>
    /\ UNCHANGED <<container, ctx, loads, script>>
    /\ UNCHANGED <<cmds, restoreVars, dlVars, auxVars>>

\* ProcessBatches: the loop is over: return batches, nil
ProcessBatchesReturn ==
    /\ ipc = "loop" /\ engine = "Batcher"
    /\ ~MoreBatches(i, Len(files))
    /\ importResult' = batches
    /\ engineErr' = "nil"
    /\ ipc' = "returned"
    /\ UNCHANGED <<engine, files, cfg, i, end, next, task, sem, wg,
                   successCount, failedCount, batchLog, batches, pauses,
                   loadIssued>>
    /\ UNCHANGED <<container, ctx, loads, script>>
    /\ UNCHANGED <<cmds, restoreVars, dlVars, auxVars>>

\* the caller cancels the context it passed to the engine
CancelContext ==
    /\ ipc \in {"loop", "spawn"}
    /\ ~ctx.done
    /\ ctx' = [done |-> TRUE, okBefore |-> loads.ok,
               inFlight |-> Cardinality({t \in DOMAIN task :
                                           task[t] \in {"resolving", "running"}})]
    /\ UNCHANGED <<engine, files, cfg, ipc, i, end, next, task, sem, wg,
                   successCount, failedCount, batchLog, batches, pauses,
                   importResult, engineErr, loadIssued, container, loads,
                   script>>
    /\ UNCHANGED <<cmds, restoreVars, dlVars, auxVars>>

\* the manifest of n files: f1 .. fn (a path is a sequence of characters)
Manifest(n) == [k \in 1..n |-> <<k>>]

ImportIdle ==
    /\ i = 0 /\ end = 0 /\ next = 1
    /\ sem = 0 /\ wg = 0 /\ successCount = 0 /\ failedCount = 0
    /\ batchLog = <<>> /\ batches = <<>> /\ pauses = 0
    /\ importResult = "none" /\ engineErr = "none"
    /\ ctx = [done |-> FALSE, okBefore |-> 0, inFlight |-> 0]
    /\ loads = [ok |-> 0, fail |-> 0]

RestoreIdle ==
    /\ opts = [DryRun |-> FALSE, SkipDelete |-> FALSE]
    /\ staged = "absent"
    /\ rpc = "off" /\ dbi = 1 /\ lastErr = FALSE
    /\ result = "none" /\ retErr = "none"

DownloadIdle ==
    /\ dpc = "off" /\ destFile = "absent" /\ startFile = "absent"
    /\ attempt = 0 /\ lastCause = "nil"
    /\ gets = 0 /\ attemptLog = <<>> /\ sleeps = 0
    /\ dret = [kind |-> "none", cause |-> "nil"]
    /\ calls = 0 /\ okCalls = 0

DetectIdle ==
    /\ dtpc = "off" /\ hour = <<>> /\ second = 0 /\ probeLog = <<>>
    /\ pattern = <<>>
    /\ lastResp = [fail |-> "none", status |-> 0, contentLength |-> <<>>]
    /\ exRet = [exists |-> FALSE, size |-> 0, err |-> "nil"]
    /\ dtRet = [kind |-> "none", timestamp |-> <<>>]

ExecIdle ==
    /\ xpc = "off" /\ xcalls = 0 /\ lookups = 0 /\ xlog = <<>>
    /\ xapi = "none"

LoadIdle ==
    /\ ldpc = "off"
    /\ execOut = [err |-> FALSE, stdout |-> <<>>, stderr |-> <<>>]
    /\ loadErr = "none"

ProgressIdle ==
    /\ pwpc = "off" /\ total = 0 /\ written = 0 /\ lastLog = "zero"

AuxIdle == DetectIdle /\ ExecIdle /\ LoadIdle /\ ProgressIdle

\* no import engine is running and no command was issued
ImportOff ==
    /\ engine = "Import" /\ files = <<>>
    /\ cfg = [Concurrency |-> 1, BatchSize |-> 1, BatchPause |-> FALSE,
             RetryCount |-> defaultRetryCount]
    /\ ipc = "idle" /\ task = <<>> /\ loadIssued = <<>>
    /\ container = "" /\ script = <<>>
    /\ ImportIdle
    /\ cmds = <<>>

\* one call of Import or ProcessBatches on a manifest of up to MaxFiles files,
\* through an executor that has or has not resolved its container yet
InitImport ==
    /\ engine \in {"Import", "Batcher"}
    /\ files \in {Manifest(n) : n \in 0..MaxFiles}
    /\ cfg \in [Concurrency : 0..MaxConc, BatchSize : 1..MaxBatch,
                BatchPause : BOOLEAN, RetryCount : RetryCounts]
    /\ ipc = "call"
    /\ task = [k \in 1..Len(files) |-> "none"]
    /\ loadIssued = [k \in 1..Len(files) |-> 0]
    /\ container \in {"", "iotdb"}
    /\ script = [k \in 1..Len(files) |-> "any"]
    /\ ImportIdle
    /\ cmds = <<>>
    /\ RestoreIdle
    /\ DownloadIdle
    /\ AuxIdle

NextImport ==
    \/ ImportCall
    \/ ImportBatchBegin
    \/ SpawnTask
    \/ \E t \in DOMAIN task : TaskAcquire(t)
    \/ \E t \in DOMAIN task : TaskResolve(t)
    \/ \E t \in DOMAIN task : TaskFinish(t)
    \/ \E t \in DOMAIN task : TaskRelease(t)
    \/ \E t \in DOMAIN task : TaskDone(t)
    \/ ImportBatchEnd
    \/ ImportReturn
    \/ ProcessBatchesCall
    \/ BatcherBatchBegin
    \/ BatcherBatchEnd
    \/ ProcessBatchesReturn
    \/ CancelContext

SpecImport == InitImport /\ [][NextImport]_vars

\* the scenario of a manifest f1 .. f7 imported with batch size 3 and
\* concurrency 2 from a pod on which only the load of f4 fails
InitScenario ==
    /\ engine \in {"Import", "Batcher"}
    /\ files = Manifest(7)
    /\ cfg \in [Concurrency : {2}, BatchSize : {3}, BatchPause : BOOLEAN,
                RetryCount : {defaultRetryCount}]
    /\ ipc = "call"
    /\ task = [k \in 1..Len(files) |-> "none"]
    /\ loadIssued = [k \in 1..Len(files) |-> 0]
    /\ container \in {"", "iotdb"}
    /\ script = [k \in 1..Len(files) |-> IF k = 4 THEN "fail" ELSE "ok"]
    /\ ImportIdle
    /\ cmds = <<>>
    /\ RestoreIdle
    /\ DownloadIdle
    /\ AuxIdle

NextScenario ==
    \/ ImportCall
    \/ ImportBatchBegin
    \/ SpawnTask
    \/ \E t \in DOMAIN task : TaskAcquire(t)
    \/ \E t \in DOMAIN task : TaskResolve(t)
    \/ \E t \in DOMAIN task : TaskFinish(t)
    \/ \E t \in DOMAIN task : TaskRelease(t)
    \/ \E t \in DOMAIN task : TaskDone(t)
    \/ ImportBatchEnd
    \/ ImportReturn
    \/ ProcessBatchesCall
    \/ BatcherBatchBegin
    \/ BatcherBatchEnd
    \/ ProcessBatchesReturn

SpecScenario == InitScenario /\ [][NextScenario]_vars

\* one call of Import or ProcessBatches on a manifest of up to MaxScripted
\* files, from a pod that lets the load of each file succeed or fail as script
\* says
InitOutcomes ==
    /\ engine \in {"Import", "Batcher"}
    /\ files \in {Manifest(n) : n \in 0..MaxScripted}
    /\ cfg \in [Concurrency : 0..MaxConc, BatchSize : 1..MaxBatch,
                BatchPause : {FALSE}, RetryCount : {defaultRetryCount}]
    /\ ipc = "call"
    /\ task = [k \in 1..Len(files) |-> "none"]
    /\ loadIssued = [k \in 1..Len(files) |-> 0]
    /\ container \in {"", "iotdb"}
    /\ script \in [1..Len(files) -> {"ok", "fail"}]
    /\ ImportIdle
    /\ cmds = <<>>
    /\ RestoreIdle
    /\ DownloadIdle
    /\ AuxIdle

SpecOutcomes == InitOutcomes /\ [][NextScenario]_vars

\* one call of Import or ProcessBatches with a concurrency limit of at least
\* one, on a manifest of up to MaxQueued files
InitImportFair ==
    /\ engine \in {"Import", "Batcher"}
    /\ files \in {Manifest(n) : n \in 0..MaxQueued}
    /\ cfg \in [Concurrency : 1..MaxConc, BatchSize : 1..MaxBatch,
                BatchPause : BOOLEAN, RetryCount : {defaultRetryCount}]
    /\ ipc = "call"
    /\ task = [k \in 1..Len(files) |-> "none"]
    /\ loadIssued = [k \in 1..Len(files) |-> 0]
    /\ container \in {"", "iotdb"}
    /\ script = [k \in 1..Len(files) |-> "any"]
    /\ ImportIdle
    /\ cmds = <<>>
    /\ RestoreIdle
    /\ DownloadIdle
    /\ AuxIdle

\* the steps of the engine's own goroutine, and those of the goroutine of the
\* file at position t
EngineStep ==
    \/ ImportCall
    \/ ImportBatchBegin
    \/ SpawnTask
    \/ ImportBatchEnd
    \/ ImportReturn
    \/ ProcessBatchesCall
    \/ BatcherBatchBegin
    \/ BatcherBatchEnd
    \/ ProcessBatchesReturn
TaskStep(t) ==
    /\ t \in DOMAIN task
    /\ \/ TaskAcquire(t)
       \/ TaskResolve(t)
       \/ TaskFinish(t)
       \/ TaskRelease(t)
       \/ TaskDone(t)

\* the Go scheduler runs every goroutine that can take a step, and every
\* remote command and pod lookup returns: a step of a goroutine that stays
\* possible is eventually taken
\* (every such step changes the position of its goroutine)
pcs == <<ipc, next, task>>
Fairness ==
    /\ WF_pcs(EngineStep)
    /\ \A t \in 1..MaxQueued : WF_pcs(TaskStep(t))

\* the engine runs on a context that is not cancelled
NextImportFair ==
    \/ EngineStep
    \/ \E t \in DOMAIN task : TaskAcquire(t)
    \/ \E t \in DOMAIN task : TaskResolve(t)
    \/ \E t \in DOMAIN task : TaskFinish(t)
    \/ \E t \in DOMAIN task : TaskRelease(t)
    \/ \E t \in DOMAIN task : TaskDone(t)

SpecImportFair == InitImportFair /\ [][NextImportFair]_vars /\ Fairness

(***************************************************************************)
(* The restore pipeline.                                                   *)
(***************************************************************************)

\* the newline character of a command's output; a path character is 1, 2, ...
NL == 0

\* splitLines: the loop of lines 385-390 from index idx (0-based) on, then the
\* rest of the string if it is not empty (lines 392-394)
RECURSIVE splitLinesFrom(_, _, _, _)
splitLinesFrom(s, idx, start, lines) ==
    IF idx < Len(s)
    THEN IF s[idx + 1] = NL
         THEN splitLinesFrom(s, idx + 1, idx + 1, Append(lines, Slice(s, start, idx)))
         ELSE splitLinesFrom(s, idx + 1, start, lines)
    ELSE IF start < Len(s)
         THEN Append(lines, Slice(s, start, Len(s)))
         ELSE lines

splitLines(s) == IF s = <<>> THEN <<>> ELSE splitLinesFrom(s, 0, 0, <<>>)

\* parseFileList: the lines that are not empty, in order
parseFileList(output) == SelectSeq(splitLines(output), LAMBDA line : line # <<>>)

\* the text `find` prints for n files: one path per line; with a blank first
\* line (lead), and with or without the final newline (trail)
RECURSIVE Listing(_, _)
Listing(n, trail) ==
    IF n = 0 THEN <<>>
    ELSE IF n = 1 THEN (IF trail THEN <<1, NL>> ELSE <<1>>)
    ELSE Listing(n - 1, TRUE) \o (IF trail THEN <<n, NL>> ELSE <<n>>)

ListOutputs ==
    {(IF lead THEN <<NL>> ELSE <<>>) \o Listing(n, trail) :
        n \in 0..MaxListed, lead \in BOOLEAN, trail \in BOOLEAN}

\* the commands whose failure Restore treats as fatal
FatalKinds == {"fileExists", "wget", "extract", "find"}

\* a fatal phase failed: r.result.Error = err; return r.result, wrapped error
FailKeepsErrorNil(cause, wrapped) ==
    /\ retErr' = wrapped
    /\ rpc' = "failed"
    /\ UNCHANGED result
Fail(cause, wrapped) ==
    /\ result' = [result EXCEPT !.Error = cause]
    /\ retErr' = wrapped
    /\ rpc' = "failed"

\* Restore is called: lines 139-156; a dry run returns from dryRun at once
RestoreStartIgnoresDryRun ==
    /\ rpc = "idle"
    /\ result' = [TotalFiles |-> 0, SuccessCount |-> 0, FailedCount |-> 0,
                  BackupFile |-> "emsau", Error |-> "nil", EndTime |-> "zero"]
    /\ rpc' = "fileExists" /\ UNCHANGED retErr
    /\ UNCHANGED <<opts, staged, dbi, lastErr>>
    /\ UNCHANGED <<importVars, cmds, dlVars, auxVars>>
RestoreStart ==
    /\ rpc = "idle"
    /\ IF opts.DryRun
       THEN /\ result' = [TotalFiles |-> 0, SuccessCount |-> 0, FailedCount |-> 0,
                          BackupFile |-> "", Error |-> "nil", EndTime |-> "now"]
            /\ retErr' = "nil"
            /\ rpc' = "done"
       ELSE /\ result' = [TotalFiles |-> 0, SuccessCount |-> 0, FailedCount |-> 0,
                          BackupFile |-> "emsau", Error |-> "nil", EndTime |-> "zero"]
            /\ rpc' = "fileExists"
            /\ UNCHANGED retErr
    /\ UNCHANGED <<opts, staged, dbi, lastErr>>
    /\ UNCHANGED <<importVars, cmds, dlVars, auxVars>>

\* downloadBackup: FileExists on the staged archive: lines 209-217; this is the
\* executor's first Exec, which resolves the container or fails
DownloadFileExists ==
    /\ rpc = "fileExists"
    /\ cmds' = Append(cmds, Cmd("fileExists", ""))
    /\ \E found \in BOOLEAN, streamErr \in BOOLEAN :
          LET err == Resolve(container, found) = "" \/ streamErr
              \* [ -f file ] && echo 'exists' || echo 'not exists'
              output == IF staged = "present" THEN "exists" ELSE "not exists"
          IN  /\ container' = Resolve(container, found)
              /\ lastErr' = err
              /\ IF err THEN Fail("fileExists", "download")
                 ELSE /\ rpc' = IF output = "exists" THEN "rename" ELSE "wget"
                      /\ UNCHANGED <<result, retErr>>
    /\ UNCHANGED <<opts, staged, dbi>>
    /\ UNCHANGED <<engineVars, dlVars, auxVars>>

\* downloadBackup: wget inside the pod: lines 220-234
DownloadWget ==
    /\ rpc = "wget"
    /\ cmds' = Append(cmds, Cmd("wget", ""))
    /\ \E err \in BOOLEAN :
          /\ lastErr' = err
          /\ IF err
             THEN /\ Fail("wget", "download")
                  \* a failed wget -O may leave a file behind
                  /\ staged' \in {"absent", "present"}
             ELSE /\ rpc' = "rename" /\ UNCHANGED <<result, retErr>>
                  /\ staged' = "present"
    /\ UNCHANGED <<opts, dbi>>
    /\ UNCHANGED <<importVars, dlVars, auxVars>>

\* extractBackup: the old data directory is moved aside; an error is only
\* logged: lines 242-251
ExtractRenameFatal ==
    /\ rpc = "rename"
    /\ cmds' = Append(cmds, Cmd("rename", ""))
    /\ \E err \in BOOLEAN :
          /\ lastErr' = err
          /\ IF err THEN Fail("rename", "extract")
             ELSE rpc' = "extract" /\ UNCHANGED <<result, retErr>>
    /\ UNCHANGED <<opts, staged, dbi>>
    /\ UNCHANGED <<importVars, dlVars, auxVars>>
ExtractRename ==
    /\ rpc = "rename"
    /\ cmds' = Append(cmds, Cmd("rename", ""))
    /\ \E err \in BOOLEAN : lastErr' = err
    /\ rpc' = "extract"
    /\ UNCHANGED <<opts, staged, dbi, result, retErr>>
    /\ UNCHANGED <<importVars, dlVars, auxVars>>

\* extractBackup: tar: lines 254-263
ExtractTarIgnoresErr ==
    /\ rpc = "extract"
    /\ cmds' = Append(cmds, Cmd("extract", ""))
    /\ \E err \in BOOLEAN : lastErr' = err
    /\ rpc' = "list"
    /\ UNCHANGED <<opts, staged, dbi, result, retErr>>
    /\ UNCHANGED <<importVars, dlVars, auxVars>>
ExtractTarCleansUpOnError ==
    /\ rpc = "extract"
    /\ \E err \in BOOLEAN :
          /\ lastErr' = err
          /\ IF err
             THEN /\ cmds' = cmds \o <<Cmd("extract", ""), Cmd("cleanup", "")>>
                  /\ staged' = "absent"
                  /\ Fail("extract", "extract")
             ELSE /\ cmds' = Append(cmds, Cmd("extract", ""))
                  /\ rpc' = "list" /\ UNCHANGED <<result, retErr, staged>>
    /\ UNCHANGED <<opts, dbi>>
    /\ UNCHANGED <<importVars, dlVars, auxVars>>
ExtractTar ==
    /\ rpc = "extract"
    /\ cmds' = Append(cmds, Cmd("extract", ""))
    /\ \E err \in BOOLEAN :
          /\ lastErr' = err
          /\ IF err THEN Fail("extract", "extract")
             ELSE rpc' = "list" /\ UNCHANGED <<result, retErr>>
    /\ UNCHANGED <<opts, staged, dbi>>
    /\ UNCHANGED <<importVars, dlVars, auxVars>>

\* extractBackup: the extracted tree is listed for the log: lines 266-272; then
\* Restore enters deleteDatabases unless SkipDelete: line 170
ExtractListDeletesAnyway ==
    /\ rpc = "list"
    /\ cmds' = Append(cmds, Cmd("list", ""))
    /\ \E err \in BOOLEAN : lastErr' = err
    /\ rpc' = "delete"
    /\ dbi' = 1
    /\ UNCHANGED <<opts, staged, result, retErr>>
    /\ UNCHANGED <<importVars, dlVars, auxVars>>
ExtractList ==
    /\ rpc = "list"
    /\ cmds' = Append(cmds, Cmd("list", ""))
    /\ \E err \in BOOLEAN : lastErr' = err
    /\ rpc' = IF opts.SkipDelete THEN "find" ELSE "delete"
    /\ dbi' = 1
    /\ UNCHANGED <<opts, staged, result, retErr>>
    /\ UNCHANGED <<importVars, dlVars, auxVars>>

\* deleteDatabases: one pass of the loop over databases: lines 281-298
DeleteDatabaseStopsOnError ==
    /\ rpc = "delete"
    /\ dbi <= Len(databases)
    /\ cmds' = Append(cmds, Cmd("delete", databases[dbi]))
    /\ \E err \in BOOLEAN :
          /\ lastErr' = err
          /\ rpc' = IF err THEN "find"
                    ELSE IF dbi + 1 <= Len(databases) THEN "delete" ELSE "flush"
    /\ dbi' = dbi + 1
    /\ UNCHANGED <<opts, staged, result, retErr>>
    /\ UNCHANGED <<importVars, dlVars, auxVars>>
DeleteDatabase ==
    /\ rpc = "delete"
    /\ dbi <= Len(databases)
    /\ cmds' = Append(cmds, Cmd("delete", databases[dbi]))
    /\ \E err \in BOOLEAN : lastErr' = err
    /\ dbi' = dbi + 1
    /\ rpc' = IF dbi + 1 <= Len(databases) THEN "delete" ELSE "flush"
    /\ UNCHANGED <<opts, staged, result, retErr>>
    /\ UNCHANGED <<importVars, dlVars, auxVars>>

\* deleteDatabases: flush, then return nil: lines 301-306
Flush ==
    /\ rpc = "flush"
    /\ cmds' = Append(cmds, Cmd("flush", ""))
    /\ \E err \in BOOLEAN : lastErr' = err
    /\ rpc' = "find"
    /\ UNCHANGED <<opts, staged, dbi, result, retErr>>
    /\ UNCHANGED <<importVars, dlVars, auxVars>>

\* importTsFiles up to the call of Import: lines 314-332
Discover ==
    /\ rpc = "find"
    /\ cmds' = Append(cmds, Cmd("find", ""))
    /\ \E err \in BOOLEAN, output \in ListOutputs :
          /\ lastErr' = err
          /\ IF err
             THEN Fail("find", "import") /\ UNCHANGED <<files, task, loadIssued, script, ipc>>
             ELSE IF output = <<>>
             THEN Fail("nofiles", "import") /\ UNCHANGED <<files, task, loadIssued, script, ipc>>
             ELSE /\ files' = parseFileList(output)
                  /\ task' = [k \in 1..Len(files') |-> "none"]
                  /\ loadIssued' = [k \in 1..Len(files') |-> 0]
                  /\ script' = [k \in 1..Len(files') |-> "any"]
                  /\ ipc' = "call"
                  /\ rpc' = "importing"
                  /\ UNCHANGED <<result, retErr>>
    /\ UNCHANGED <<opts, staged, dbi>>
    /\ UNCHANGED <<engine, cfg, i, end, next, sem, wg, successCount,
                   failedCount, batchLog, batches, pauses, importResult,
                   engineErr, container, ctx, loads>>
    /\ UNCHANGED <<dlVars, auxVars>>

\* importTsFiles returns what Import returned; Restore copies the counts:
\* lines 332-337 and 177-185
ImportDoneFailsOnFailedLoads ==
    /\ rpc = "importing"
    /\ ipc = "returned"
    /\ IF importResult.FailedCount > 0
       THEN /\ result' = [result EXCEPT !.TotalFiles = importResult.TotalFiles,
                                        !.SuccessCount = importResult.SuccessCount,
                                        !.FailedCount = importResult.FailedCount,
                                        !.Error = "import"]
            /\ retErr' = "import"
            /\ rpc' = "failed"
       ELSE /\ result' = [result EXCEPT !.TotalFiles = importResult.TotalFiles,
                                        !.SuccessCount = importResult.SuccessCount,
                                        !.FailedCount = importResult.FailedCount]
            /\ rpc' = "cleanup"
            /\ UNCHANGED retErr
    /\ UNCHANGED <<opts, staged, dbi, lastErr>>
    /\ UNCHANGED <<importVars, cmds, dlVars, auxVars>>
ImportDone ==
    /\ rpc = "importing"
    /\ ipc = "returned"
    /\ IF engineErr # "nil"
       THEN Fail(engineErr, "import")
       ELSE /\ result' = [result EXCEPT !.TotalFiles = importResult.TotalFiles,
                                        !.SuccessCount = importResult.SuccessCount,
                                        !.FailedCount = importResult.FailedCount]
            /\ rpc' = "cleanup"
            /\ UNCHANGED retErr
    /\ UNCHANGED <<opts, staged, dbi, lastErr>>
    /\ UNCHANGED <<importVars, cmds, dlVars, auxVars>>

\* cleanup, whose error is only logged, then the end time is stamped and
\* Restore returns nil: lines 188-201 and 341-350
Cleanup ==
    /\ rpc = "cleanup"
    /\ cmds' = Append(cmds, Cmd("cleanup", ""))
    /\ \E err \in BOOLEAN :
          /\ lastErr' = err
          \* rm -f removes the archive; a failed command may not have run
          /\ staged' \in (IF err THEN {staged, "absent"} ELSE {"absent"})
    /\ result' = [result EXCEPT !.EndTime = "now"]
    /\ retErr' = "nil"
    /\ rpc' = "done"
    /\ UNCHANGED <<opts, dbi>>
    /\ UNCHANGED <<importVars, dlVars, auxVars>>

\* Restore is called with any options, on a configuration that Load resolved
Init ==
    /\ opts \in [DryRun : BOOLEAN, SkipDelete : BOOLEAN]
    /\ staged \in {"absent", "present"}
    /\ rpc = "idle" /\ dbi = 1 /\ lastErr = FALSE
    /\ result = "none" /\ retErr = "none"
    /\ cmds = <<>>
    /\ engine = "Import"
    /\ files = <<>>
    /\ cfg \in [Concurrency : 1..MaxConc, BatchSize : 1..MaxListed,
                BatchPause : BOOLEAN, RetryCount : {defaultRetryCount}]
    /\ ipc = "idle"
    /\ task = <<>>
    /\ loadIssued = <<>>
    /\ container = ""
    /\ script = <<>>
    /\ ImportIdle
    /\ DownloadIdle
    /\ AuxIdle

\* Restore's steps and those of the Import it calls; no task of that Import
\* looks the pod up, the staged-file check having cached the container
Next ==
    \/ RestoreStart
    \/ DownloadFileExists
    \/ DownloadWget
    \/ ExtractRename
    \/ ExtractTar
    \/ ExtractList
    \/ DeleteDatabase
    \/ Flush
    \/ Discover
    \/ ImportCall
    \/ ImportBatchBegin
    \/ SpawnTask
    \/ \E t \in DOMAIN task : TaskAcquire(t)
    \/ \E t \in DOMAIN task : TaskFinish(t)
    \/ \E t \in DOMAIN task : TaskRelease(t)
    \/ \E t \in DOMAIN task : TaskDone(t)
    \/ ImportBatchEnd
    \/ ImportReturn
    \/ ImportDone
    \/ Cleanup

Spec == Init /\ [][Next]_vars

(***************************************************************************)
(* The downloader.                                                         *)
(***************************************************************************)

\* os.Stat(destPath) returns no error iff something is at destPath: line 65
StatNeverFinds(f) == FALSE
StatOk(f) == f # "absent"

\* the loop condition of the retry loop: attempt < d.maxRetries
MoreAttempts(n) == n < maxRetries

\* the ways an attempt can end before the destination file is created:
\* NewRequestWithContext fails, Do fails, the status is not 200, or 200
GetOutcomes == {"newreq", "transport", "status", "ok"}

\* DownloadWithProgress returns
Return(kind, cause) ==
    /\ dret' = [kind |-> kind, cause |-> cause]
    /\ dpc' = "returned"

\* DownloadWithProgress is called: MkdirAll, then the Stat short-circuit:
\* lines 58-73
DownloadCall ==
    /\ dpc = "call"
    /\ startFile' = destFile
    /\ attempt' = 0 /\ lastCause' = "nil"
    /\ gets' = 0 /\ attemptLog' = <<>> /\ sleeps' = 0
    /\ \E mkdirErr \in (IF destFile = "absent" THEN BOOLEAN ELSE {FALSE}) :
          IF mkdirErr THEN Return("mkdir", "mkdir")
          ELSE IF StatOk(destFile) THEN Return("nil", "nil")
          ELSE dpc' = "loop" /\ UNCHANGED dret
    /\ UNCHANGED <<destFile, calls, okCalls>>
    /\ UNCHANGED <<importVars, cmds, restoreVars, auxVars>>

\* one attempt up to the status check: the retry delay (not before the first
\* attempt), the request, the response: lines 74-103
AttemptGetForgetsCause ==
    /\ dpc = "loop"
    /\ MoreAttempts(attempt)
    /\ sleeps' = IF attempt > 0 THEN sleeps + 1 ELSE sleeps
    /\ \E outcome \in GetOutcomes :
          /\ gets' = IF outcome = "newreq" THEN gets ELSE gets + 1
          /\ IF outcome = "ok"
             THEN dpc' = "create" /\ UNCHANGED <<attempt, lastCause, attemptLog>>
             ELSE /\ lastCause' = IF outcome = "status" THEN lastCause ELSE outcome
                  /\ attemptLog' = Append(attemptLog, outcome)
                  /\ attempt' = attempt + 1
                  /\ UNCHANGED dpc
    /\ UNCHANGED <<destFile, startFile, dret, calls, okCalls>>
    /\ UNCHANGED <<importVars, cmds, restoreVars, auxVars>>
AttemptGetSleepsFirst ==
    /\ dpc = "loop"
    /\ MoreAttempts(attempt)
    /\ sleeps' = sleeps + 1
    /\ \E outcome \in GetOutcomes :
          /\ gets' = IF outcome = "newreq" THEN gets ELSE gets + 1
          /\ IF outcome = "ok"
             THEN dpc' = "create" /\ UNCHANGED <<attempt, lastCause, attemptLog>>
             ELSE /\ lastCause' = outcome
                  /\ attemptLog' = Append(attemptLog, outcome)
                  /\ attempt' = attempt + 1
                  /\ UNCHANGED dpc
    /\ UNCHANGED <<destFile, startFile, dret, calls, okCalls>>
    /\ UNCHANGED <<importVars, cmds, restoreVars, auxVars>>
AttemptGet ==
    /\ dpc = "loop"
    /\ MoreAttempts(attempt)
    /\ sleeps' = IF attempt > 0 THEN sleeps + 1 ELSE sleeps
    /\ \E outcome \in GetOutcomes :
          /\ gets' = IF outcome = "newreq" THEN gets ELSE gets + 1
          /\ IF outcome = "ok"
             THEN dpc' = "create" /\ UNCHANGED <<attempt, lastCause, attemptLog>>
             ELSE /\ lastCause' = outcome
                  /\ attemptLog' = Append(attemptLog, outcome)
                  /\ attempt' = attempt + 1
                  /\ UNCHANGED dpc
    /\ UNCHANGED <<destFile, startFile, dret, calls, okCalls>>
    /\ UNCHANGED <<importVars, cmds, restoreVars, auxVars>>

\* the destination file is created; a failure returns at once: lines 113-118
AttemptCreate ==
    /\ dpc = "create"
    /\ \E err \in BOOLEAN :
          IF err
          THEN /\ attemptLog' = Append(attemptLog, "create")
               /\ Return("create", "create")
               /\ UNCHANGED destFile
          ELSE /\ destFile' = "partial"
               /\ dpc' = "copy"
               /\ UNCHANGED <<attemptLog, dret>>
    /\ UNCHANGED <<startFile, attempt, lastCause, gets, sleeps, calls, okCalls>>
    /\ UNCHANGED <<importVars, cmds, restoreVars, auxVars>>

\* the body is copied into the file; on failure the file is removed and the
\* loop goes on, on success Download returns nil: lines 128-146
AttemptCopyKeepsPartial ==
    /\ dpc = "copy"
    /\ \E err \in BOOLEAN :
          IF err
          THEN /\ lastCause' = "copy"
               /\ attemptLog' = Append(attemptLog, "copy")
               /\ attempt' = attempt + 1
               /\ dpc' = "loop"
               /\ UNCHANGED <<destFile, dret>>
          ELSE /\ destFile' = "new"
               /\ attemptLog' = Append(attemptLog, "ok")
               /\ Return("nil", "nil")
               /\ UNCHANGED <<attempt, lastCause>>
    /\ UNCHANGED <<startFile, gets, sleeps, calls, okCalls>>
    /\ UNCHANGED <<importVars, cmds, restoreVars, auxVars>>
AttemptCopy ==
    /\ dpc = "copy"
    /\ \E err \in BOOLEAN :
          IF err
          THEN /\ destFile' = "absent"
               /\ lastCause' = "copy"
               /\ attemptLog' = Append(attemptLog, "copy")
               /\ attempt' = attempt + 1
               /\ dpc' = "loop"
               /\ UNCHANGED dret
          ELSE /\ destFile' = "new"
               /\ attemptLog' = Append(attemptLog, "ok")
               /\ Return("nil", "nil")
               /\ UNCHANGED <<attempt, lastCause>>
    /\ UNCHANGED <<startFile, gets, sleeps, calls, okCalls>>
    /\ UNCHANGED <<importVars, cmds, restoreVars, auxVars>>

\* the attempts are used up: the error wraps lastErr: line 149
GiveUp ==
    /\ dpc = "loop"
    /\ ~MoreAttempts(attempt)
    /\ Return("retries", lastCause)
    /\ UNCHANGED <<destFile, startFile, attempt, lastCause, gets, attemptLog,
                   sleeps, calls, okCalls>>
    /\ UNCHANGED <<importVars, cmds, restoreVars, auxVars>>

\* the caller calls Download again with the same destPath
DownloadAgain ==
    /\ dpc = "returned"
    /\ calls + 1 < MaxCalls
    /\ calls' = calls + 1
    /\ okCalls' = IF dret.kind = "nil" THEN okCalls + 1 ELSE okCalls
    /\ dret' = [kind |-> "none", cause |-> "nil"]
    /\ dpc' = "call"
    /\ UNCHANGED <<destFile, startFile, attempt, lastCause, gets, attemptLog,
                   sleeps>>
    /\ UNCHANGED <<importVars, cmds, restoreVars, auxVars>>

\* Download calls to one destPath, which may hold a file before the first call
InitDownload ==
    /\ dpc = "call"
    /\ destFile \in {"absent", "old"}
    /\ startFile = "absent"
    /\ attempt = 0 /\ lastCause = "nil"
    /\ gets = 0 /\ attemptLog = <<>> /\ sleeps = 0
    /\ dret = [kind |-> "none", cause |-> "nil"]
    /\ calls = 0 /\ okCalls = 0
    /\ ImportOff
    /\ RestoreIdle
    /\ AuxIdle

NextDownload ==
    \/ DownloadCall
    \/ AttemptGet
    \/ AttemptCreate
    \/ AttemptCopy
    \/ GiveUp
    \/ DownloadAgain

SpecDownload == InitDownload /\ [][NextDownload]_vars

(***************************************************************************)
(* The timestamp detector and the existence probe.                         *)
(***************************************************************************)

\* the decimal digits, as characters
digits == <<"0", "1", "2", "3", "4", "5", "6", "7", "8", "9">>

IsDigit(c) == \E k \in DOMAIN digits : digits[k] = c
DigitVal(c) == (CHOOSE k \in DOMAIN digits : digits[k] = c) - 1

\* strconv.ParseInt(s, 10, 64) with its error dropped: the value of a string
\* of digits, and 0 for a string that is empty or holds another character
RECURSIVE ParseDigits(_, _)
ParseDigits(s, acc) ==
    IF s = <<>> THEN acc ELSE ParseDigits(Tail(s), acc * 10 + DigitVal(Head(s)))
ParseInt(s) ==
    IF s # <<>> /\ \A k \in DOMAIN s : IsDigit(s[k]) THEN ParseDigits(s, 0) ELSE 0

\* fmt.Sprintf("%02d", n) for 0 <= n < 100
Sprintf02d(n) == <<digits[(n \div 10) + 1], digits[(n % 10) + 1]>>

\* the last second DetectTimestamp tries
lastSecond == 10

\* the loop condition of the candidate loop: second <= 10
MoreSecondsStopsEarly(s) == s < lastSecond
MoreSeconds(s) == s <= lastSecond

\* the statuses and Content-Length headers the server is given to answer with
Statuses == {200, 204, 403, 404, 500}
Headers == {<<>>, <<"x">>, <<"0">>, <<"4", "2">>}

\* what a HEAD request can come to: the request cannot be built, the transport
\* fails, or the server answers with a status and headers
Responses ==
    {[fail |-> f, status |-> 0, contentLength |-> <<>>] : f \in {"newreq", "transport"}}
    \cup {[fail |-> "none", status |-> st, contentLength |-> h] :
             st \in Statuses, h \in Headers}

\* OSSDownloader.Exists: (exists, size, err) for the answer to its request
ExistsTakesErrorsForAbsent(resp) ==
    IF resp.fail # "none" THEN [exists |-> FALSE, size |-> 0, err |-> resp.fail]
    ELSE IF resp.status = 200
    THEN [exists |-> TRUE, size |-> ParseInt(resp.contentLength), err |-> "nil"]
    ELSE [exists |-> FALSE, size |-> 0, err |-> "nil"]
Exists(resp) ==
    IF resp.fail # "none" THEN [exists |-> FALSE, size |-> 0, err |-> resp.fail]
    ELSE IF resp.status = 200
    THEN [exists |-> TRUE, size |-> ParseInt(resp.contentLength), err |-> "nil"]
    ELSE IF resp.status = 404
    THEN [exists |-> FALSE, size |-> 0, err |-> "nil"]
    ELSE [exists |-> FALSE, size |-> 0, err |-> "status"]

\* DetectTimestamp is called: the hour is read and the loop starts at second 1
DetectCall ==
    /\ dtpc = "call"
    /\ second' = 1
    /\ dtpc' = "loop"
    /\ UNCHANGED <<hour, pattern, probeLog, lastResp, exRet, dtRet>>
    /\ UNCHANGED <<importVars, cmds, restoreVars, dlVars, execVars, loadVars,
                 pwVars>>

\* one pass of the candidate loop: the timestamp is built, the URL is probed,
\* and a hit is returned; an error or a miss goes on to the next second
DetectProbeReturnsError ==
    /\ dtpc = "loop"
    /\ MoreSeconds(second)
    /\ \E resp \in Responses :
          LET timestamp == hour \o <<"3", "5">> \o Sprintf02d(second)
              r == Exists(resp)
          IN  /\ lastResp' = resp
              /\ exRet' = r
              /\ probeLog' = Append(probeLog,
                                    [method |-> "HEAD", timestamp |-> timestamp,
                                     exists |-> r.exists, err |-> r.err # "nil"])
              /\ IF r.err # "nil"
                 THEN /\ dtRet' = [kind |-> "probeerr", timestamp |-> <<>>]
                      /\ dtpc' = "returned"
                      /\ UNCHANGED second
                 ELSE IF r.exists
                 THEN /\ dtRet' = [kind |-> "ok", timestamp |-> timestamp]
                      /\ dtpc' = "returned"
                      /\ UNCHANGED second
                 ELSE /\ second' = second + 1
                      /\ UNCHANGED <<dtRet, dtpc>>
    /\ UNCHANGED <<hour, pattern>>
    /\ UNCHANGED <<importVars, cmds, restoreVars, dlVars, execVars, loadVars,
                 pwVars>>
DetectProbe ==
    /\ dtpc = "loop"
    /\ MoreSeconds(second)
    /\ \E resp \in Responses :
          LET timestamp == hour \o <<"3", "5">> \o Sprintf02d(second)
              r == Exists(resp)
          IN  /\ lastResp' = resp
              /\ exRet' = r
              /\ probeLog' = Append(probeLog,
                                    [method |-> "HEAD", timestamp |-> timestamp,
                                     exists |-> r.exists, err |-> r.err # "nil"])
              /\ IF r.err = "nil" /\ r.exists
                 THEN /\ dtRet' = [kind |-> "ok", timestamp |-> timestamp]
                      /\ dtpc' = "returned"
                      /\ UNCHANGED second
                 ELSE /\ second' = second + 1
                      /\ UNCHANGED <<dtRet, dtpc>>
    /\ UNCHANGED <<hour, pattern>>
    /\ UNCHANGED <<importVars, cmds, restoreVars, dlVars, execVars, loadVars,
                 pwVars>>

\* the loop is over without a hit: the not-found error
DetectNotFound ==
    /\ dtpc = "loop"
    /\ ~MoreSeconds(second)
    /\ dtRet' = [kind |-> "notfound", timestamp |-> <<>>]
    /\ dtpc' = "returned"
    /\ UNCHANGED <<hour, pattern, second, probeLog, lastResp, exRet>>
    /\ UNCHANGED <<importVars, cmds, restoreVars, dlVars, execVars, loadVars,
                 pwVars>>

\* the hours the clock is read at
Hours == {<<"2", "0", "2", "6", "0", "2", "0", "3", "0", "8">>,
          <<"2", "0", "2", "6", "1", "1", "0", "5", "2", "3">>}

\* one call of DetectTimestamp
InitDetect ==
    /\ dtpc = "call"
    /\ hour \in Hours
    /\ pattern = <<>>
    /\ second = 0 /\ probeLog = <<>>
    /\ lastResp = [fail |-> "none", status |-> 0, contentLength |-> <<>>]
    /\ exRet = [exists |-> FALSE, size |-> 0, err |-> "nil"]
    /\ dtRet = [kind |-> "none", timestamp |-> <<>>]
    /\ ImportOff
    /\ RestoreIdle
    /\ DownloadIdle
    /\ ExecIdle
    /\ LoadIdle
    /\ ProgressIdle

NextDetect ==
    \/ DetectCall
    \/ DetectProbe
    \/ DetectNotFound

SpecDetect == InitDetect /\ [][NextDetect]_vars

\* strings.ReplaceAll(s, old, new) for a non-empty old: the occurrences of old
\* are replaced from left to right, without overlap
RECURSIVE ReplaceAll(_, _, _)
ReplaceAll(s, old, new) ==
    IF s = <<>> THEN <<>>
    ELSE IF Len(old) <= Len(s) /\ SubSeq(s, 1, Len(old)) = old
    THEN new \o ReplaceAll(SubSeq(s, Len(old) + 1, Len(s)), old, new)
    ELSE <<Head(s)>> \o ReplaceAll(Tail(s), old, new)

\* strings.Contains(s, "*")
ContainsStar(s) == \E k \in DOMAIN s : s[k] = "*"

\* searchPattern := strings.ReplaceAll(pattern, "{hour}", hour)
searchPattern == ReplaceAll(pattern, <<"{", "h", "o", "u", "r", "}">>, hour)

\* the loop condition of the custom candidate loop: second <= 10
MoreSecondsCustom(s) == s <= lastSecond

\* DetectTimestampCustom is called: the placeholder is replaced and the
\* pattern is searched for the wildcard
DetectCustomCall ==
    /\ dtpc = "customcall"
    /\ IF ContainsStar(searchPattern)
       THEN second' = 1 /\ dtpc' = "customloop"
       ELSE dtpc' = "direct" /\ UNCHANGED second
    /\ UNCHANGED <<hour, pattern, probeLog, lastResp, exRet, dtRet>>
    /\ UNCHANGED <<importVars, cmds, restoreVars, dlVars, execVars, loadVars,
                 pwVars>>

\* one pass of the custom candidate loop: the second replaces every wildcard,
\* the URL is probed, and a hit is returned; an error or a miss goes on
DetectCustomProbe ==
    /\ dtpc = "customloop"
    /\ MoreSecondsCustom(second)
    /\ \E resp \in Responses :
          LET timestamp == ReplaceAll(searchPattern, <<"*">>, Sprintf02d(second))
              r == Exists(resp)
          IN  /\ lastResp' = resp
              /\ exRet' = r
              /\ probeLog' = Append(probeLog,
                                    [method |-> "HEAD", timestamp |-> timestamp,
                                     exists |-> r.exists, err |-> r.err # "nil"])
              /\ IF r.err = "nil" /\ r.exists
                 THEN /\ dtRet' = [kind |-> "ok", timestamp |-> timestamp]
                      /\ dtpc' = "returned"
                      /\ UNCHANGED second
                 ELSE /\ second' = second + 1
                      /\ UNCHANGED <<dtRet, dtpc>>
    /\ UNCHANGED <<hour, pattern>>
    /\ UNCHANGED <<importVars, cmds, restoreVars, dlVars, execVars, loadVars,
                 pwVars>>

\* the custom loop is over without a hit: the not-found error of line 119
DetectCustomNotFound ==
    /\ dtpc = "customloop"
    /\ ~MoreSecondsCustom(second)
    /\ dtRet' = [kind |-> "notfound", timestamp |-> <<>>]
    /\ dtpc' = "returned"
    /\ UNCHANGED <<hour, pattern, second, probeLog, lastResp, exRet>>
    /\ UNCHANGED <<importVars, cmds, restoreVars, dlVars, execVars, loadVars,
                 pwVars>>

\* a pattern without wildcard is probed once: the probe's error is returned
\* wrapped, a hit returns the pattern, a miss the not-found error
DetectDirectSwallowsError ==
    /\ dtpc = "direct"
    /\ \E resp \in Responses :
          LET r == Exists(resp)
          IN  /\ lastResp' = resp
              /\ exRet' = r
              /\ probeLog' = Append(probeLog,
                                    [method |-> "HEAD", timestamp |-> searchPattern,
                                     exists |-> r.exists, err |-> r.err # "nil"])
              /\ dtRet' = IF r.err = "nil" /\ r.exists
                          THEN [kind |-> "ok", timestamp |-> searchPattern]
                          ELSE [kind |-> "notfound", timestamp |-> <<>>]
    /\ dtpc' = "returned"
    /\ UNCHANGED <<hour, pattern, second>>
    /\ UNCHANGED <<importVars, cmds, restoreVars, dlVars, execVars, loadVars,
                 pwVars>>
DetectDirect ==
    /\ dtpc = "direct"
    /\ \E resp \in Responses :
          LET r == Exists(resp)
          IN  /\ lastResp' = resp
              /\ exRet' = r
              /\ probeLog' = Append(probeLog,
                                    [method |-> "HEAD", timestamp |-> searchPattern,
                                     exists |-> r.exists, err |-> r.err # "nil"])
              /\ dtRet' = IF r.err # "nil"
                          THEN [kind |-> "probeerr", timestamp |-> <<>>]
                          ELSE IF r.exists
                          THEN [kind |-> "ok", timestamp |-> searchPattern]
                          ELSE [kind |-> "notfound", timestamp |-> <<>>]
    /\ dtpc' = "returned"
    /\ UNCHANGED <<hour, pattern, second>>
    /\ UNCHANGED <<importVars, cmds, restoreVars, dlVars, execVars, loadVars,
                 pwVars>>

\* the patterns DetectTimestampCustom is called with: "{hour}35*", "*",
\* "*-*", "{hour}3501", "x", "{hour" and ""
Patterns ==
    {<<"{", "h", "o", "u", "r", "}", "3", "5", "*">>,
     <<"*">>,
     <<"*", "-", "*">>,
     <<"{", "h", "o", "u", "r", "}", "3", "5", "0", "1">>,
     <<"x">>,
     <<"{", "h", "o", "u", "r">>,
     <<>>}

\* one call of DetectTimestampCustom
InitDetectCustom ==
    /\ dtpc = "customcall"
    /\ hour \in Hours
    /\ pattern \in Patterns
    /\ second = 0 /\ probeLog = <<>>
    /\ lastResp = [fail |-> "none", status |-> 0, contentLength |-> <<>>]
    /\ exRet = [exists |-> FALSE, size |-> 0, err |-> "nil"]
    /\ dtRet = [kind |-> "none", timestamp |-> <<>>]
    /\ ImportOff
    /\ RestoreIdle
    /\ DownloadIdle
    /\ ExecIdle
    /\ LoadIdle
    /\ ProgressIdle

NextDetectCustom ==
    \/ DetectCustomCall
    \/ DetectCustomProbe
    \/ DetectCustomNotFound
    \/ DetectDirect

SpecDetectCustom == InitDetectCustom /\ [][NextDetectCustom]_vars

(***************************************************************************)
(* The executor: Exec calls made one after the other on one Executor.      *)
(***************************************************************************)

\* the methods that run a command and return its output: FileExists and
\* FileSize call ExecSimple, which calls Exec: lines 72, 172-200
Apis == {"Exec", "ExecSimple", "FileExists", "FileSize"}

\* Exec is called, directly or through one of the other methods;
\* getContainerName returns the cached name or goes to look the pod up:
\* lines 52-55 and 72-74
ExecCall ==
    /\ xpc = "idle"
    /\ xcalls < MaxExecs
    /\ xcalls' = xcalls + 1
    /\ xapi' \in Apis
    /\ xpc' = IF Cached(container) THEN "stream" ELSE "lookup"
    /\ UNCHANGED <<lookups, xlog>>
    /\ UNCHANGED <<importVars, cmds, restoreVars, dlVars, detVars, loadVars,
                 pwVars>>

\* the pod lookup returns: an error or a pod without containers makes Exec
\* return the error; else the first container's name is cached: lines 57-77
ExecLookup ==
    /\ xpc = "lookup"
    /\ lookups' = lookups + 1
    /\ \E answer \in {"error", "nocontainers", "found"} :
          /\ container' = Resolve(container, answer = "found")
          /\ IF answer = "found"
             THEN xpc' = "stream" /\ UNCHANGED xlog
             ELSE /\ xlog' = Append(xlog, [api |-> xapi, lookup |-> TRUE,
                                          kind |-> "resolve", output |-> FALSE,
                                          streamFailed |-> FALSE,
                                          ctxErr |-> "nil"])
                  /\ xpc' = "idle"
    /\ UNCHANGED <<xcalls, xapi>>
    /\ UNCHANGED <<engineVars, cmds, restoreVars, dlVars, detVars, loadVars,
                 pwVars>>

\* the error Exec returns for the way the stream ended: lines 113-125
StreamErrOnAnyContextEnd(streamFailed, ctxErr) ==
    IF streamFailed /\ ctxErr # "nil" THEN "timeout"
    ELSE IF streamFailed THEN "failed"
    ELSE "nil"
StreamErr(streamFailed, ctxErr) ==
    IF streamFailed /\ ctxErr = "DeadlineExceeded" THEN "timeout"
    ELSE IF streamFailed THEN "failed"
    ELSE "nil"

\* the SPDY executor is made and the command streamed; Exec returns the
\* output captured together with the error: lines 100-125
ExecStream ==
    /\ xpc = "stream"
    /\ \E spdyErr \in BOOLEAN, streamFailed \in BOOLEAN,
          ctxErr \in {"nil", "DeadlineExceeded", "Canceled"} :
          \* this call looked the pod up iff a lookup is not yet in the log
          xlog' = Append(xlog,
                    [api |-> xapi,
                     lookup |-> lookups > Len(SelectSeq(xlog, LAMBDA e : e.lookup)),
                     kind |-> IF spdyErr THEN "spdy"
                              ELSE StreamErr(streamFailed, ctxErr),
                     output |-> ~spdyErr,
                     streamFailed |-> ~spdyErr /\ streamFailed,
                     ctxErr |-> IF spdyErr THEN "nil" ELSE ctxErr])
    /\ xpc' = "idle"
    /\ UNCHANGED <<xcalls, lookups, xapi>>
    /\ UNCHANGED <<importVars, cmds, restoreVars, dlVars, detVars, loadVars,
                 pwVars>>

\* Exec calls on an Executor as NewExecutor returns it
InitExec ==
    /\ xpc = "idle" /\ xcalls = 0 /\ lookups = 0 /\ xlog = <<>>
    /\ xapi = "none"
    /\ ImportOff
    /\ RestoreIdle
    /\ DownloadIdle
    /\ DetectIdle
    /\ LoadIdle
    /\ ProgressIdle

NextExec ==
    \/ ExecCall
    \/ ExecLookup
    \/ ExecStream

SpecExec == InitExec /\ [][NextExec]_vars

(***************************************************************************)
(* One load: importSingleFile / importFile and the count of its outcome.   *)
(* A string is a sequence of characters.                                   *)
(***************************************************************************)

\* indexOf: the loop from index idx on; the first index at which substr
\* occurs in str, -1 if there is none
RECURSIVE indexOfFrom(_, _, _)
indexOfFrom(str, substr, idx) ==
    IF idx <= Len(str) - Len(substr)
    THEN IF Slice(str, idx, idx + Len(substr)) = substr
         THEN idx
         ELSE indexOfFrom(str, substr, idx + 1)
    ELSE -1

indexOf(str, substr) == indexOfFrom(str, substr, 0)

\* contains(s, substr)
contains(str, substr) ==
    /\ Len(str) >= Len(substr)
    /\ \/ str = substr
       \/ /\ Len(str) > Len(substr)
          /\ \/ Slice(str, 0, Len(substr)) = substr
             \/ Slice(str, Len(str) - Len(substr), Len(str)) = substr
             \/ indexOf(str, substr) >= 0

\* containsSuccess(output)
containsSuccess(output) ==
    \/ contains(output, <<"s", "u", "c", "c", "e", "s", "s", "f", "u", "l", "l", "y">>)
    \/ contains(output, <<"s", "u", "c", "c", "e", "s", "s">>)
    \/ contains(output, <<"S", "u", "c", "c", "e", "s", "s">>)

\* the texts the load command is given to print on stdout or stderr
Outputs ==
    {<<>>,
     <<"s", "u", "c", "c", "e", "s", "s">>,
     <<"S", "u", "c", "c", "e", "s", "s">>,
     <<"S", "U", "C", "C", "E", "S", "S">>,
     <<"L", "o", "a", "d", " ", "s", "u", "c", "c", "e", "s", "s", "f", "u", "l", "l", "y">>,
     <<"s", "u", "c", "c", "e", "s">>,
     <<"M", "s", "g", ":", " ", "S", "u", "c", "c", "e", "s", "s", ".">>,
     <<"e", "r", "r", "o", "r", ":", " ", "5", "0", "0">>}

\* Exec returns for the load command and importSingleFile returns its verdict
LoadExec ==
    /\ ldpc = "exec"
    /\ \E err \in BOOLEAN, stdout \in Outputs, stderr \in Outputs :
          /\ execOut' = [err |-> err, stdout |-> stdout, stderr |-> stderr]
          /\ loadErr' =
                IF importSingleFile(err, containsSuccess(stdout)
                                         \/ containsSuccess(stderr))
                THEN "nil"
                ELSE IF err THEN "exec" ELSE "nomarker"
    /\ ldpc' = "count"
    /\ UNCHANGED <<importVars, cmds, restoreVars, dlVars, detVars, execVars,
                 pwVars>>

\* the task adds one to the counter that the verdict selects
LoadCount ==
    /\ ldpc = "count"
    /\ IF loadErr # "nil"
       THEN failedCount' = failedCount + 1 /\ UNCHANGED successCount
       ELSE successCount' = successCount + 1 /\ UNCHANGED failedCount
    /\ ldpc' = "returned"
    /\ UNCHANGED <<engine, files, cfg, ipc, i, end, next, task, sem, wg,
                   batchLog, batches, pauses, importResult, engineErr,
                   loadIssued, ctx, loads, script, container>>
    /\ UNCHANGED <<execOut, loadErr>>
    /\ UNCHANGED <<cmds, restoreVars, dlVars, detVars, execVars,
                 pwVars>>

\* the body of one task, from the call of importSingleFile on
InitLoad ==
    /\ ldpc = "exec"
    /\ execOut = [err |-> FALSE, stdout |-> <<>>, stderr |-> <<>>]
    /\ loadErr = "none"
    /\ ImportOff
    /\ RestoreIdle
    /\ DownloadIdle
    /\ DetectIdle
    /\ ExecIdle
    /\ ProgressIdle

NextLoad ==
    \/ LoadExec
    \/ LoadCount

SpecLoad == InitLoad /\ [][NextLoad]_vars

(***************************************************************************)
(* One io.Copy(progressWriter, resp.Body) of DownloadWithProgress.         *)
(***************************************************************************)

\* the most bytes a body delivers: Content-Length if the response has one
BodyLimit(length) == IF length < 0 THEN MaxBody ELSE length

\* progressWriter.Write(p) for a chunk of size bytes: the file's Write fails,
\* or the bytes are counted and the progress condition is evaluated, the 5
\* seconds first (always past for the zero lastLog) and the modulus only
\* when they are not past and total > 0; a zero divisor panics
ProgressWrite ==
    /\ pwpc = "copy"
    /\ \E size \in 1..MaxChunk, werr \in BOOLEAN, late \in BOOLEAN :
          /\ written + size <= BodyLimit(total)
          /\ IF werr
             THEN pwpc' = "failed" /\ UNCHANGED <<written, lastLog>>
             ELSE /\ written' = written + size
                  /\ IF lastLog = "zero" \/ late
                     THEN lastLog' = "set" /\ UNCHANGED pwpc
                     ELSE IF total > 0
                          THEN IF total \div 10 = 0
                               THEN pwpc' = "panic" /\ UNCHANGED lastLog
                               ELSE /\ lastLog' =
                                          IF written' % (total \div 10) < size
                                          THEN "set" ELSE lastLog
                                    /\ UNCHANGED pwpc
                          ELSE UNCHANGED <<pwpc, lastLog>>
    /\ UNCHANGED total
    /\ UNCHANGED <<importVars, cmds, restoreVars, dlVars, detVars, execVars,
                   loadVars>>

\* the body ends: io.Copy returns nil at EOF after Content-Length bytes (any
\* number if the length is unknown), an error otherwise
CopyEnd ==
    /\ pwpc = "copy"
    /\ \E rerr \in BOOLEAN :
          pwpc' = IF rerr \/ (total >= 0 /\ written < total)
                  THEN "failed" ELSE "done"
    /\ UNCHANGED <<total, written, lastLog>>
    /\ UNCHANGED <<importVars, cmds, restoreVars, dlVars, detVars, execVars,
                   loadVars>>

\* the progressWriter as DownloadWithProgress builds it for a response
InitProgress ==
    /\ pwpc = "copy"
    /\ total \in -1..MaxBody
    /\ written = 0
    /\ lastLog = "zero"
    /\ ImportOff
    /\ RestoreIdle
    /\ DownloadIdle
    /\ DetectIdle
    /\ ExecIdle
    /\ LoadIdle

NextProgress ==
    \/ ProgressWrite
    \/ CopyEnd

SpecProgress == InitProgress /\ [][NextProgress]_vars

(***************************************************************************)
(* Properties.                                                             *)
(***************************************************************************)
Min(a, b) == IF a < b THEN a ELSE b

\* the least k with k * b >= n
Ceil(n, b) == CHOOSE k \in 0..n : k * b >= n /\ (k = 0 \/ (k - 1) * b < n)

RECURSIVE Flatten(_)
Flatten(bs) == IF bs = <<>> THEN <<>> ELSE bs[1].Files \o Flatten(Tail(bs))

\* the batches the running engine has cut so far
CutBatches == IF engine = "Import" THEN batchLog ELSE batches

\* the batch (counted from 0) that the file at position t falls in
BatchOf(t) == (t - 1) \div cfg.BatchSize

Positions == DOMAIN task
InFlight ==
    {t \in Positions :
        task[t] \in {"spawned", "resolving", "running", "counted", "released"}}
Executing == {t \in Positions : task[t] = "running"}
Holding == {t \in Positions : task[t] \in {"resolving", "running", "counted"}}

\* C1: for a manifest of N files and batch size B > 0, Import and
\* ProcessBatches cut exactly ceil(N/B) batches, numbered 1..ceil(N/B); batch k
\* is the contiguous slice files[(k-1)B : min(kB, N)], and the batches
\* concatenated in order are the manifest.
C1_BatchesPartitionManifest ==
    /\ \A k \in 1..Len(CutBatches) :
          /\ CutBatches[k].Number = k
          /\ CutBatches[k].Files =
                SubSeq(files, (k - 1) * cfg.BatchSize + 1,
                       Min(k * cfg.BatchSize, Len(files)))
    /\ \A k \in 1..Len(batchLog) :
          batchLog[k].Total = Ceil(Len(files), cfg.BatchSize)
    /\ ipc = "returned" =>
          /\ Len(CutBatches) = Ceil(Len(files), cfg.BatchSize)
          /\ Flatten(CutBatches) = files

\* a call has returned after cutting a ragged last batch
C1_Witness ==
    /\ ipc = "returned"
    /\ Len(CutBatches) >= 2
    /\ Len(CutBatches[Len(CutBatches)].Files) < cfg.BatchSize

\* C2: after every completed Import, SuccessCount + FailedCount = TotalFiles
\* = len(files), whatever the outcomes and the interleaving.
C2_CountsAddUp ==
    (ipc = "returned" /\ engine = "Import") =>
        /\ importResult.SuccessCount + importResult.FailedCount = importResult.TotalFiles
        /\ importResult.TotalFiles = Len(files)

\* Import has returned after loads of both outcomes
C2_Witness ==
    /\ ipc = "returned" /\ engine = "Import"
    /\ importResult.SuccessCount > 0
    /\ importResult.FailedCount > 0

\* C3: with a concurrency limit C >= 1, at most C load commands execute at
\* once, the semaphore holds exactly one element per task between acquire and
\* release, and no slot is held once a batch has ended.
C3_ConcurrencyBound ==
    cfg.Concurrency >= 1 =>
        /\ Cardinality(Executing) <= cfg.Concurrency
        /\ sem = Cardinality(Holding)
        /\ ipc \in {"loop", "returned"} => sem = 0

\* the limit is reached while another task of the batch waits for a slot
C3_Witness ==
    /\ cfg.Concurrency = 2
    /\ Cardinality(Executing) = 2
    /\ \E t \in Positions : task[t] = "spawned"

\* C4: all tasks in flight belong to one batch, no task of a batch is started
\* before every task of the earlier batches is done, and the engine returns
\* (Import reads the counters, ProcessBatches has stored each batch's counts)
\* only after every task is done.
C4_BatchBarrier ==
    /\ \A t, u \in InFlight : BatchOf(t) = BatchOf(u)
    /\ \A t, u \in Positions :
          (task[t] # "none" /\ BatchOf(u) < BatchOf(t)) => task[u] = "done"
    /\ \A k \in 1..Len(batches) :
          \A t \in Positions : BatchOf(t) = k - 1 => task[t] = "done"
    /\ ipc = "returned" => \A t \in Positions : task[t] = "done"

\* two loads of a later batch execute together
C4_Witness ==
    \E t, u \in Executing : t # u /\ BatchOf(t) >= 1

\* the command issued last, and whether Restore has returned an error
LastCmd == cmds[Len(cmds)].kind
ReturnedError == retErr \notin {"none", "nil"}

\* C5: Restore returns an error only from the download phase, the extraction
\* or file discovery; a failed rename, list, delete, flush or cleanup never
\* makes it return an error, and the step after it is still taken.
C5_OnlyFatalPhasesFail ==
    /\ ReturnedError <=> rpc = "failed"
    /\ rpc = "failed" =>
          /\ result.Error \in {"fileExists", "wget", "extract", "find", "nofiles"}
          /\ retErr = (CASE result.Error \in {"fileExists", "wget"} -> "download"
                         [] result.Error = "extract" -> "extract"
                         [] OTHER -> "import")
    /\ (cmds # <<>> /\ lastErr) =>
          /\ LastCmd = "rename" => rpc = "extract"
          /\ LastCmd = "list" => rpc = (IF opts.SkipDelete THEN "find" ELSE "delete")
          /\ LastCmd = "delete" =>
                rpc = (IF cmds[Len(cmds)].arg = databases[Len(databases)]
                       THEN "flush" ELSE "delete")
          /\ LastCmd = "flush" => rpc = "find"
          /\ LastCmd = "cleanup" => rpc = "done" /\ retErr = "nil"

\* Restore has returned nil although its cleanup command failed
C5_Witness ==
    /\ rpc = "done" /\ retErr = "nil"
    /\ lastErr /\ LastCmd = "cleanup"

\* the place of a command in the pipeline's order
PhaseIdx(kind) ==
    CASE kind = "fileExists" -> 1
      [] kind = "wget" -> 2
      [] kind = "rename" -> 3
      [] kind = "extract" -> 4
      [] kind = "list" -> 5
      [] kind = "delete" -> 6
      [] kind = "flush" -> 7
      [] kind = "find" -> 8
      [] kind = "logmem" -> 9
      [] kind = "cleanup" -> 10

\* C6: a failed command of a fatal phase (or an empty listing) ends the
\* pipeline at once: it is the last command issued, no later phase's command and
\* no load was issued, and the result carries a non-nil Error.
C6_FatalFailureAborts ==
    /\ (cmds # <<>> /\ lastErr /\ LastCmd \in FatalKinds) => rpc = "failed"
    /\ rpc = "failed" =>
          /\ result.Error # "nil"
          /\ ReturnedError
          /\ LastCmd = (IF result.Error = "nofiles" THEN "find" ELSE result.Error)
          /\ \A k \in 1..Len(cmds) - 1 : PhaseIdx(cmds[k].kind) < PhaseIdx(LastCmd)
          /\ ipc = "idle"
          /\ \A t \in Positions : loadIssued[t] = 0

\* the extraction failed, after the staged-file check and the rename
C6_Witness ==
    /\ rpc = "failed" /\ result.Error = "extract"
    /\ Len(cmds) >= 3

\* C7: a dry run returns a nil error and a result with all three counts 0, and
\* issues no remote command.
C7_DryRunDoesNothing ==
    opts.DryRun =>
        /\ cmds = <<>>
        /\ ipc = "idle"
        /\ \A t \in Positions : loadIssued[t] = 0
        /\ rpc \in {"idle", "done"}
        /\ rpc = "done" =>
              /\ retErr = "nil"
              /\ result.TotalFiles = 0
              /\ result.SuccessCount = 0
              /\ result.FailedCount = 0
              /\ result.Error = "nil"

\* a dry run has returned
C7_Witness == opts.DryRun /\ rpc = "done"

\* C8: per-file failures are only counted: when the engine returns, the load
\* command of every file of the manifest has been issued, and the returned
\* error is nil.
C8_FailuresOnlyCounted ==
    ipc = "returned" =>
        /\ engineErr = "nil"
        /\ \A t \in Positions : loadIssued[t] >= 1

\* ProcessBatches has returned two or more batches in which every load failed
C8_Witness ==
    /\ ipc = "returned" /\ engine = "Batcher"
    /\ Len(batches) >= 2
    /\ \A k \in 1..Len(batches) : batches[k].Success = 0 /\ batches[k].Failed >= 1

\* C9: a Download that finds something at destPath returns nil, sends no
\* request and leaves the file as it was; so once a Download has succeeded no
\* later Download to that path sends a request.
C9_ExistingFileShortCircuits ==
    /\ (dpc # "call" /\ startFile # "absent") =>
          /\ dpc = "returned" /\ dret.kind = "nil"
          /\ gets = 0 /\ attemptLog = <<>>
          /\ destFile = startFile
    /\ (dpc # "call" /\ okCalls >= 1) => gets = 0

\* a Download called after a successful one has returned
C9_Witness ==
    /\ dpc = "returned" /\ okCalls >= 1 /\ startFile = "new"

\* the causes for which an attempt is given up and the loop goes on
RetryCauses == {"newreq", "transport", "status", "copy"}

\* C10 as stated: with no file at destPath, whenever an attempt's failure makes
\* Download return an error it has made exactly maxRetries attempts and the
\* error wraps the final attempt's cause.
C10_Original ==
    (dpc = "returned" /\ startFile = "absent" /\ dret.kind \in {"create", "retries"}) =>
        /\ Len(attemptLog) = maxRetries
        /\ dret.cause = attemptLog[Len(attemptLog)]

\* C10 amended: with no file at destPath, the retries-exhausted error is
\* returned after exactly maxRetries attempts, each failed by request creation,
\* transport, status or copy, and wraps the final attempt's cause; a failure to
\* create the destination file ends the call in that attempt, after at most
\* maxRetries attempts, with its own error.
C10_RetriesThenWrapsLastCause ==
    (dpc = "returned" /\ startFile = "absent") =>
        /\ dret.kind = "retries" =>
              /\ Len(attemptLog) = maxRetries
              /\ \A k \in 1..Len(attemptLog) : attemptLog[k] \in RetryCauses
              /\ dret.cause = attemptLog[Len(attemptLog)]
        /\ dret.kind = "create" =>
              /\ Len(attemptLog) \in 1..maxRetries
              /\ attemptLog[Len(attemptLog)] = "create"
              /\ \A k \in 1..Len(attemptLog) - 1 : attemptLog[k] \in RetryCauses
              /\ dret.cause = "create"
        /\ dret.kind \in {"nil", "mkdir", "create", "retries"}

\* every attempt failed, the last one for another cause than the first
C10_Witness ==
    /\ dpc = "returned" /\ dret.kind = "retries"
    /\ attemptLog[1] = "transport"
    /\ attemptLog[Len(attemptLog)] = "status"

ReportedSize(h) ==
    CASE h = <<"4", "2">> -> 42
      [] h = <<"0">> -> 0
      [] OTHER -> 0

\* C12: Exists maps the answer to its HEAD request to three outcomes: status
\* 200 gives (true, the reported size, nil); 404 gives (false, 0, nil); a
\* request that fails or any other status gives (false, 0, an error).
C12_ExistsThreeOutcomes ==
    /\ \A k \in DOMAIN probeLog : probeLog[k].method = "HEAD"
    /\ probeLog # <<>> =>
          IF lastResp.fail = "none" /\ lastResp.status = 200
          THEN exRet = [exists |-> TRUE,
                        size |-> ReportedSize(lastResp.contentLength),
                        err |-> "nil"]
          ELSE IF lastResp.fail = "none" /\ lastResp.status = 404
          THEN exRet = [exists |-> FALSE, size |-> 0, err |-> "nil"]
          ELSE /\ ~exRet.exists /\ exRet.size = 0 /\ exRet.err # "nil"

\* a probe was answered 403 after one that was answered 404
C12_Witness ==
    /\ Len(probeLog) >= 2
    /\ lastResp.status = 403 /\ exRet.err = "status"
    /\ ~probeLog[Len(probeLog) - 1].err

\* the candidate timestamps of an hour: minute 35, seconds 01 to 10
Seconds == << <<"0", "1">>, <<"0", "2">>, <<"0", "3">>, <<"0", "4">>,
              <<"0", "5">>, <<"0", "6">>, <<"0", "7">>, <<"0", "8">>,
              <<"0", "9">>, <<"1", "0">> >>
Candidate(s) == hour \o <<"3", "5">> \o Seconds[s]

\* the probe reported that the candidate exists
Hit(p) == p.exists /\ ~p.err

\* C13: DetectTimestamp returns the candidate of the smallest second in
\* 01..10 whose probe reports that it exists, and the not-found error when
\* none of the ten does.
C13_SmallestExistingSecond ==
    /\ Len(probeLog) <= Len(Seconds)
    /\ \A k \in DOMAIN probeLog : probeLog[k].timestamp = Candidate(k)
    /\ dtRet.kind = "ok" =>
          /\ Hit(probeLog[Len(probeLog)])
          /\ \A k \in 1..Len(probeLog) - 1 : ~Hit(probeLog[k])
          /\ dtRet.timestamp = Candidate(Len(probeLog))
    /\ dtRet.kind = "notfound" =>
          /\ Len(probeLog) = Len(Seconds)
          /\ \A k \in DOMAIN probeLog : ~Hit(probeLog[k])
    /\ (\E k \in DOMAIN probeLog : Hit(probeLog[k])) => dtRet.kind = "ok"

\* the tenth candidate is returned after a probe that failed
C13_Witness ==
    /\ dtRet.kind = "ok" /\ Len(probeLog) = 10
    /\ \E k \in 1..9 : probeLog[k].err

RECURSIVE SumOf(_, _)
SumOf(bs, field) == IF bs = <<>> THEN 0 ELSE bs[1][field] + SumOf(Tail(bs), field)

\* C14: the manifest f1 .. f7 with batch size 3, concurrency 2 and only f4
\* failing is cut into [f1,f2,f3], [f4,f5,f6], [f7]; the second batch counts 2
\* successes and 1 failure; the call as a whole reports 7 files, 6 successes
\* and 1 failure, whatever the interleaving of the tasks.
C14_ScenarioSevenFiles ==
    /\ (engine = "Batcher" /\ Len(batches) >= 2) =>
          batches[2].Success = 2 /\ batches[2].Failed = 1
    /\ (engine = "Import" /\ ipc = "loop" /\ i = 6) =>
          successCount = 5 /\ failedCount = 1
    /\ ipc = "returned" =>
          /\ [k \in 1..Len(CutBatches) |-> CutBatches[k].Files] =
                << << <<1>>, <<2>>, <<3>> >>, << <<4>>, <<5>>, <<6>> >>, << <<7>> >> >>
          /\ engine = "Import" =>
                importResult = [TotalFiles |-> 7, SuccessCount |-> 6,
                                FailedCount |-> 1]
          /\ engine = "Batcher" =>
                /\ importResult = batches
                /\ SumOf(batches, "Processed") = 7
                /\ SumOf(batches, "Success") = 6
                /\ SumOf(batches, "Failed") = 1

\* f5 and f6 are being loaded together after the load of f4 has failed
C14_Witness ==
    /\ Len(files) = 7 /\ script[4] = "fail"
    /\ task[4] \in {"counted", "released", "done"}
    /\ task[5] = "running" /\ task[6] = "running"
    /\ loads.fail = 1

\* the call failed because the container could not be resolved
Unresolved(e) == e.kind = "resolve"

Resolving == {t \in Positions : task[t] = "resolving"}

\* C16: no two tasks of an import can write the executor's cached container
\* name concurrently, whatever the state of the cache when the batch starts: at
\* most one task at a time is between finding the cache empty and assigning it.
C16_NoConcurrentCacheWrite == Cardinality(Resolving) <= 1

C18_ErrorOnlyOnFatalFailure ==
    /\ rpc \notin {"idle", "off"} =>
          /\ result.Error # "nil" <=> ReturnedError
          /\ result.Error # "nil" <=> rpc = "failed"
    /\ loads.fail > 0 => rpc \in {"importing", "cleanup", "done"}
    /\ (rpc = "done" /\ ~opts.DryRun) =>
          /\ retErr = "nil" /\ result.Error = "nil"
          /\ result.FailedCount = loads.fail
          /\ result.SuccessCount = loads.ok
          /\ result.TotalFiles = loads.ok + loads.fail

\* Restore has returned nil from a run in which the load of every file failed
C18_Witness ==
    /\ rpc = "done" /\ retErr = "nil"
    /\ loads.fail = 2 /\ loads.ok = 0
    /\ result.FailedCount = 2

\* the commands of the pipeline proper: all but those issued only for the log
\* (the listing of the extracted tree and the memory probe)
PipelineCmds == SelectSeq(cmds, LAMBDA c : c.kind \notin {"list", "logmem"})

\* the order of a complete run, with or without the download
PipelineOrder(downloaded, skipDelete) ==
    <<Cmd("fileExists", "")>>
    \o (IF downloaded THEN <<Cmd("wget", "")>> ELSE <<>>)
    \o <<Cmd("rename", ""), Cmd("extract", "")>>
    \o (IF skipDelete THEN <<>>
        ELSE <<Cmd("delete", "root.emsplus"), Cmd("delete", "root.energy"),
               Cmd("flush", "")>>)
    \o <<Cmd("find", ""), Cmd("cleanup", "")>>

IsPrefix(a, b) == Len(a) <= Len(b) /\ a = SubSeq(b, 1, Len(a))

Issued(kind) == \E k \in DOMAIN cmds : cmds[k].kind = kind

\* C19: a Restore that is not a dry run issues its commands in the order
\* staged-file check, download if needed, rename, extract, delete of the two
\* databases and flush unless SkipDelete, discovery, loads, cleanup; a load is
\* issued only after the extraction succeeded and the discovery was made, the
\* cleanup only after every load has returned, and no delete or flush after
\* the discovery.
C19_PipelineOrder ==
    /\ \E downloaded \in BOOLEAN :
          IsPrefix(PipelineCmds, PipelineOrder(downloaded, opts.SkipDelete))
    /\ \A t \in Positions :
          loadIssued[t] > 0 =>
              /\ \E k \in 1..Len(cmds) - 1 : cmds[k].kind = "extract"
              /\ Issued("find")
    /\ Issued("cleanup") =>
          \A t \in Positions : loadIssued[t] = 1 /\ task[t] = "done"
    /\ Issued("find") =>
          cmds[Len(cmds)].kind \in {"find", "logmem", "cleanup"}

\* a run with download and delete has issued every command, the cleanup last
C19_Witness ==
    /\ rpc = "done" /\ ~opts.SkipDelete /\ ~opts.DryRun
    /\ Issued("wget") /\ Issued("flush")
    /\ Len(files) = 2
    /\ cmds[Len(cmds)].kind = "cleanup"

\* the success markers, and whether one of them occurs in a text
Markers == {<<"s", "u", "c", "c", "e", "s", "s">>,
            <<"s", "u", "c", "c", "e", "s", "s", "f", "u", "l", "l", "y">>,
            <<"S", "u", "c", "c", "e", "s", "s">>}
Occurs(m, text) ==
    \E k \in 0..Len(text) - Len(m) : SubSeq(text, k + 1, k + Len(m)) = m
HasMarker(text) == \E m \in Markers : Occurs(m, text)

C21_EmptyManifestIsFatal ==
    (Issued("find") /\ files = <<>>) =>
        /\ rpc = "failed"
        /\ \A t \in DOMAIN loadIssued : loadIssued[t] = 0

\* the delete and flush commands issued so far, and those of a complete pass
DeleteCmds == SelectSeq(cmds, LAMBDA c : c.kind \in {"delete", "flush"})
AllDeletes ==
    <<Cmd("delete", "root.emsplus"), Cmd("delete", "root.energy"),
      Cmd("flush", "")>>

\* C22: without SkipDelete the delete of root.emsplus, the delete of
\* root.energy and the flush are issued once each, in that order, whatever
\* the earlier ones returned, before the discovery; with SkipDelete none of
\* them is issued.
C22_DeletesAndFlushOnceInOrder ==
    /\ opts.SkipDelete => DeleteCmds = <<>>
    /\ ~opts.SkipDelete =>
          /\ IsPrefix(DeleteCmds, AllDeletes)
          /\ rpc = "flush" => DeleteCmds = SubSeq(AllDeletes, 1, 2)
          /\ (rpc = "find" \/ Issued("find")) => DeleteCmds = AllDeletes

\* the flush failed after both deletes were issued, and the discovery is next
C22_Witness ==
    /\ rpc = "find" /\ ~opts.SkipDelete
    /\ lastErr
    /\ DeleteCmds = AllDeletes

\* C23: with a concurrency limit of at least one and any batch size, also one
\* above the limit, every task that waits for a semaphore slot obtains one and
\* the engine returns, provided every goroutine that can step does and every
\* remote command returns.
C23_TasksGetSlotsAndImportReturns ==
    /\ \A t \in 1..MaxQueued :
          (t \in DOMAIN task /\ task[t] = "spawned")
              ~> (t \in DOMAIN task /\ task[t] \notin {"none", "spawned"})
    /\ <>(ipc = "returned")

\* a task of a batch larger than the limit waits while every slot is held
C23_Witness ==
    /\ cfg.BatchSize > cfg.Concurrency
    /\ sem = cfg.Concurrency
    /\ \E t \in DOMAIN task : task[t] = "spawned"
    /\ \E t \in DOMAIN task : task[t] = "running"

\* C24: the engine pauses only between two batches and only when BatchPause is
\* set: a call that returns after k >= 1 batches has paused k-1 times with
\* BatchPause and never without it; no pause follows the last batch, and the
\* n-th pause is taken only once every task of the first n batches is done.
C24_PauseOnlyBetweenBatches ==
    LET k == Ceil(Len(files), cfg.BatchSize)
    IN  /\ ~cfg.BatchPause => pauses = 0
        /\ pauses <= (IF k = 0 THEN 0 ELSE k - 1)
        /\ \A t \in 1..Min(pauses * cfg.BatchSize, Len(files)) : task[t] = "done"
        /\ pauses > 0 => pauses * cfg.BatchSize < Len(files)
        /\ (ipc = "returned" /\ k >= 1) =>
              pauses = IF cfg.BatchPause THEN k - 1 ELSE 0

\* a call with BatchPause set has returned after three batches and two pauses
C24_Witness ==
    /\ ipc = "returned" /\ cfg.BatchPause
    /\ Ceil(Len(files), cfg.BatchSize) = 3
    /\ pauses = 2

\* C25: Exec reports a timeout and another failure of the stream as two kinds
\* of error: the timeout exactly when the stream failed and the context of the
\* execution ended with DeadlineExceeded, the other kind for every other
\* failure of the stream, also when the caller's context was cancelled; with
\* either it returns the output captured.
C25_TimeoutDistinctFromFailure ==
    \A k \in DOMAIN xlog :
        /\ xlog[k].kind = "timeout" <=>
              xlog[k].streamFailed /\ xlog[k].ctxErr = "DeadlineExceeded"
        /\ xlog[k].kind = "failed" <=>
              xlog[k].streamFailed /\ xlog[k].ctxErr # "DeadlineExceeded"
        /\ xlog[k].streamFailed => xlog[k].output

\* one call timed out, another failed on a cancelled context, a third failed
\* with the context still live; each returned the output
C25_Witness ==
    /\ Len(xlog) = 3
    /\ xlog[1].kind = "timeout" /\ xlog[1].output
    /\ xlog[2].kind = "failed" /\ xlog[2].ctxErr = "Canceled" /\ xlog[2].output
    /\ xlog[3].kind = "failed" /\ xlog[3].ctxErr = "nil" /\ xlog[3].output

\* C26: once the Executor has cached the name of its container, the cached
\* name never changes and no call of Exec, ExecSimple, FileExists or FileSize
\* looks the pod up again.
C26_ResolvedCacheIsStable ==
    [][container # "" => /\ container' = container
                         /\ lookups' = lookups]_vars

\* the first call resolved the container; calls through FileExists and
\* FileSize followed and the pod was looked up once in all
C26_Witness ==
    /\ xpc = "idle" /\ Len(xlog) = 3
    /\ container = "iotdb" /\ lookups = 1
    /\ xlog[1].lookup
    /\ xlog[2].api = "FileExists" /\ ~xlog[2].lookup
    /\ xlog[3].api = "FileSize" /\ ~xlog[3].lookup

\* C27: a result with a non-nil Error has TotalFiles = SuccessCount =
\* FailedCount = 0: every fatal phase precedes the first load, so nothing was
\* counted when Restore aborted.
C27_FatalResultHasZeroCounts ==
    (rpc # "idle" /\ result.Error # "nil") =>
        /\ rpc = "failed"
        /\ result.TotalFiles = 0
        /\ result.SuccessCount = 0
        /\ result.FailedCount = 0
        /\ \A t \in DOMAIN loadIssued : loadIssued[t] = 0

\* the discovery, the last fatal phase, failed after the deletes and the flush
C27_Witness ==
    /\ rpc = "failed"
    /\ result.Error = "find"
    /\ Issued("flush")
    /\ result.TotalFiles = 0 /\ result.SuccessCount = 0 /\ result.FailedCount = 0

\* the pattern that is searched, for the patterns of Patterns (the placeholder
\* stands only at their head), and the candidate it gives for the k-th second
Searched ==
    IF Len(pattern) >= 6 /\ SubSeq(pattern, 1, 6) = <<"{", "h", "o", "u", "r", "}">>
    THEN hour \o SubSeq(pattern, 7, Len(pattern))
    ELSE pattern
RECURSIVE StarTo(_, _)
StarTo(s, k) ==
    IF s = <<>> THEN <<>>
    ELSE (IF Head(s) = "*" THEN Seconds[k] ELSE <<Head(s)>>) \o StarTo(Tail(s), k)

\* C28: when the pattern, its placeholder replaced by the hour, holds a
\* wildcard, DetectTimestampCustom probes the candidates of the seconds 01 to
\* 10 in increasing order, each put in place of the wildcard, and returns the
\* first that exists; without a wildcard it probes once and returns the
\* pattern when it exists, the probe's error when the probe failed, and the
\* not-found error otherwise.
C28_CustomDetection ==
    IF \E j \in DOMAIN Searched : Searched[j] = "*"
    THEN /\ Len(probeLog) <= Len(Seconds)
         /\ \A k \in DOMAIN probeLog : probeLog[k].timestamp = StarTo(Searched, k)
         /\ dtRet.kind \in {"none", "ok", "notfound"}
         /\ dtRet.kind = "ok" =>
               /\ Hit(probeLog[Len(probeLog)])
               /\ \A k \in 1..Len(probeLog) - 1 : ~Hit(probeLog[k])
               /\ dtRet.timestamp = StarTo(Searched, Len(probeLog))
         /\ dtRet.kind = "notfound" =>
               /\ Len(probeLog) = Len(Seconds)
               /\ \A k \in DOMAIN probeLog : ~Hit(probeLog[k])
         /\ (\E k \in DOMAIN probeLog : Hit(probeLog[k])) => dtRet.kind = "ok"
    ELSE /\ Len(probeLog) <= 1
         /\ dtpc = "returned" <=> Len(probeLog) = 1
         /\ dtpc = "returned" =>
               /\ probeLog[1].timestamp = Searched
               /\ dtRet.kind = IF probeLog[1].err THEN "probeerr"
                               ELSE IF probeLog[1].exists THEN "ok"
                               ELSE "notfound"
               /\ dtRet.kind = "ok" => dtRet.timestamp = Searched
               /\ dtRet.kind = "probeerr" => exRet.err # "nil"

\* the pattern "*-*" is found at second 03 after a probe that failed
C28_Witness ==
    /\ pattern = <<"*", "-", "*">>
    /\ dtRet = [kind |-> "ok", timestamp |-> <<"0", "3", "-", "0", "3">>]
    /\ Len(probeLog) = 3
    /\ probeLog[2].err

\* the second of a candidate timestamp: its last two digits
SecondOf(timestamp) == ParseInt(SubSeq(timestamp, Len(timestamp) - 1, Len(timestamp)))

\* C29: DetectTimestamp probes the seconds in strictly increasing order from
\* 01 and stops at the first hit, so a hit at second s was reached with
\* exactly s probes; a probe that returns an error ends nothing, the search
\* goes on as after an absent candidate, and ten probes that all fail give the
\* same not-found error as ten absent candidates.
C29_IncreasingOrderStopsAtFirstHit ==
    /\ \A k \in DOMAIN probeLog : SecondOf(probeLog[k].timestamp) = k
    /\ \A k \in 1..Len(probeLog) - 1 : ~Hit(probeLog[k])
    /\ dtRet.kind = "ok" =>
          /\ SecondOf(dtRet.timestamp) = Len(probeLog)
          /\ Hit(probeLog[Len(probeLog)])
    /\ dtpc = "returned" =>
          /\ ~ENABLED NextDetect
          /\ dtRet.kind \in {"ok", "notfound"}
          /\ Len(probeLog) < lastSecond => Hit(probeLog[Len(probeLog)])
          /\ (\A k \in DOMAIN probeLog : ~Hit(probeLog[k])) =>
                dtRet = [kind |-> "notfound", timestamp |-> <<>>]

\* all ten probes returned an error and the result is the not-found error
C29_Witness ==
    /\ dtpc = "returned"
    /\ Len(probeLog) = lastSecond
    /\ \A k \in DOMAIN probeLog : probeLog[k].err
    /\ dtRet = [kind |-> "notfound", timestamp |-> <<>>]

\* C30: every result Restore returns, after a success, a dry run or a fatal
\* failure, has its end time and duration stamped (the two are assigned
\* together, from the clock read at the return).
C30_EveryResultIsStamped ==
    rpc \in {"done", "failed"} => result.EndTime = "now"

\* the cleanup commands issued so far
CleanupCmds == SelectSeq(cmds, LAMBDA c : c.kind = "cleanup")

\* C31: the cleanup is issued once in a run whose import completed and never
\* in a run that failed in download, extraction or discovery; so the archive
\* that was staged stays in the pod after such a failure, and a Restore that
\* finds it there does not download it again.
C31_CleanupOnlyAfterImport ==
    /\ Len(CleanupCmds) <= 1
    /\ Issued("cleanup") => rpc = "done" /\ ipc = "returned"
    /\ (rpc = "done" /\ ~opts.DryRun) => Len(CleanupCmds) = 1
    /\ rpc = "failed" => ~Issued("cleanup")
    /\ (Issued("rename") /\ ~Issued("cleanup")) => staged = "present"
    /\ rpc = "wget" => staged = "absent"
    /\ (Issued("rename") /\ ~Issued("wget")) =>
          (staged = "present" \/ Issued("cleanup"))

\* a run that found the archive staged skipped the download and failed in
\* the extraction; the archive is still there
C31_Witness ==
    /\ rpc = "failed" /\ result.Error = "extract"
    /\ ~Issued("wget")
    /\ staged = "present"

\* the positions whose task has called Exec for its load, and those whose
\* load has come back and was counted
Loaded == {t \in DOMAIN task :
              task[t] \in {"resolving", "running", "counted", "released", "done"}}
Counted == {t \in DOMAIN task : task[t] \in {"counted", "released", "done"}}

\* C32: an engine issues the load of each file of the manifest once, whether
\* it succeeds or fails; a failed load is not issued again, whatever
\* RetryCount is configured.
C32_EachLoadIssuedOnce ==
    /\ \A t \in DOMAIN loadIssued :
          loadIssued[t] = IF t \in Loaded THEN 1 ELSE 0
    /\ loads.ok + loads.fail = Cardinality(Counted)
    /\ ipc = "returned" => \A t \in DOMAIN loadIssued : loadIssued[t] = 1

\* an engine configured with three retries has returned after two loads
\* failed, each issued once
C32_Witness ==
    /\ ipc = "returned" /\ cfg.RetryCount = 3
    /\ loads.fail >= 2
    /\ \A t \in DOMAIN loadIssued : loadIssued[t] = 1

\* the number of files whose load the pod lets succeed, or fail
Scripted(outcome) == Cardinality({t \in DOMAIN script : script[t] = outcome})

\* C33: the two engines agree: for a manifest, batch size, concurrency limit
\* and outcome of each file's load, the SuccessCount and FailedCount Import
\* returns and the sums of Success and Failed over the batches ProcessBatches
\* returns are both the numbers of files whose load succeeds and fails; each
\* returned batch has Success + Failed = Processed = Len(Files).
C33_EnginesAgree ==
    ipc = "returned" =>
        /\ engine = "Import" =>
              /\ importResult.SuccessCount = Scripted("ok")
              /\ importResult.FailedCount = Scripted("fail")
        /\ engine = "Batcher" =>
              /\ importResult = batches
              /\ SumOf(batches, "Success") = Scripted("ok")
              /\ SumOf(batches, "Failed") = Scripted("fail")
              /\ \A k \in DOMAIN batches :
                    /\ batches[k].Success + batches[k].Failed = batches[k].Processed
                    /\ batches[k].Processed = Len(batches[k].Files)

\* ProcessBatches has returned two batches larger than the concurrency limit,
\* each with a load that succeeded and one that failed
C33_Witness ==
    /\ ipc = "returned" /\ engine = "Batcher"
    /\ cfg.BatchSize > cfg.Concurrency
    /\ Len(batches) = 2
    /\ \A k \in DOMAIN batches : batches[k].Success >= 1 /\ batches[k].Failed >= 1

\* the attempts the running Download has begun
Started == Len(attemptLog) + (IF dpc \in {"create", "copy"} THEN 1 ELSE 0)

\* C34 as stated: at most maxRetries GET requests, no wait before the first
\* attempt or after the last, and a Download that fails every attempt it
\* makes has waited exactly maxRetries-1 times.
C34_Original ==
    dpc \in {"loop", "create", "copy", "returned"} =>
        /\ gets <= maxRetries
        /\ sleeps <= maxRetries - 1
        /\ (dpc = "returned" /\ dret.kind \in {"create", "retries"}) =>
              sleeps = maxRetries - 1

\* C34 amended: a Download sends at most maxRetries GET requests, at most one
\* per attempt and none after the attempt that succeeded; it waits once before
\* each attempt but the first and never after the last, so a Download that
\* makes all maxRetries attempts and fails each has waited maxRetries-1 times,
\* and one that a failure to create the file ended in its n-th attempt n-1
\* times.
C34_RetryDelayBetweenAttempts ==
    dpc \in {"loop", "create", "copy", "returned"} =>
        /\ Started <= maxRetries
        /\ gets <= Started
        /\ sleeps = IF Started = 0 THEN 0 ELSE Started - 1
        /\ \A k \in 1..Len(attemptLog) - 1 : attemptLog[k] # "ok"
        /\ (dpc = "returned" /\ dret.kind = "retries") =>
              Started = maxRetries /\ sleeps = maxRetries - 1
        /\ (dpc = "returned" /\ dret.kind = "create") =>
              sleeps = Len(attemptLog) - 1

\* every one of the maxRetries attempts sent its request and failed
C34_Witness ==
    /\ dpc = "returned" /\ dret.kind = "retries"
    /\ gets = maxRetries
    /\ sleeps = maxRetries - 1

\* C35: with a concurrency limit of 0 no task gets a semaphore slot, no load
\* is issued or counted, and on a manifest that is not empty the engine never
\* returns; the limit is used as configured.
C35_ZeroLimitBlocksEveryTask ==
    cfg.Concurrency = 0 =>
        /\ sem = 0
        /\ \A t \in DOMAIN task : task[t] \in {"none", "spawned"} /\ loadIssued[t] = 0
        /\ loads = [ok |-> 0, fail |-> 0]
        /\ successCount = 0 /\ failedCount = 0
        /\ files # <<>> => (ipc # "returned" /\ i = 0)

\* the tasks of the first batch all wait for a slot, the engine waits for
\* them, and nothing can happen any more
C35_Witness ==
    /\ cfg.Concurrency = 0 /\ Len(files) >= 2 /\ cfg.BatchSize >= 2
    /\ ipc = "spawn" /\ next > end
    /\ wg = end /\ \A t \in 1..end : task[t] = "spawned"
    /\ ctx.done
    /\ ~ENABLED NextImport

\* a text with every capital letter replaced by its small letter
Capitals == <<"A", "B", "C", "D", "E", "F", "G", "H", "I", "J", "K", "L", "M",
              "N", "O", "P", "Q", "R", "S", "T", "U", "V", "W", "X", "Y", "Z">>
Smalls == <<"a", "b", "c", "d", "e", "f", "g", "h", "i", "j", "k", "l", "m",
            "n", "o", "p", "q", "r", "s", "t", "u", "v", "w", "x", "y", "z">>
LowerChar(ch) ==
    IF \E k \in 1..26 : Capitals[k] = ch
    THEN Smalls[CHOOSE k \in 1..26 : Capitals[k] = ch]
    ELSE ch
ToLower(text) == [k \in 1..Len(text) |-> LowerChar(text[k])]
OccursAnyCase(m, text) == Occurs(ToLower(m), ToLower(text))

\* C36: contains(s, substr) holds iff substr occurs in s without regard to
\* letter case, so containsSuccess accepts what the load command printed iff
\* it holds "success" in any capitalization.
C36_ContainsIgnoresCase ==
    ldpc \in {"count", "returned"} =>
        \A out \in {execOut.stdout, execOut.stderr} :
            /\ \A m \in Markers : contains(out, m) <=> OccursAnyCase(m, out)
            /\ containsSuccess(out) <=>
                  OccursAnyCase(<<"s", "u", "c", "c", "e", "s", "s">>, out)

\* C37: progressWriter.Write never divides by zero: whatever the content
\* length and the writes, the modulus by total/10 is evaluated only when
\* total/10 is not zero, so no Write panics.
C37_WriteNeverDividesByZero == pwpc # "panic"

====
